---- MODULE Spec2Model ----
(***************************************************************************)
(* Moderation decision engine and moderation cache of the posting tool:    *)
(* lib/openai.ts (moderateContent, analyzeModeration, the moderation       *)
(* cache), and the two server routes that reach the posting service.       *)
(*                                                                         *)
(* Scores are probabilities in [0,1]; they are modelled as integers in     *)
(* millionths (0.05 is 50000, 1.0 is 1000000).  Time is in milliseconds,   *)
(* as Date.now() gives it.                                                 *)
(***************************************************************************)
EXTENDS Integers, Sequences, FiniteSets, TLC

(***************************************************************************)
(* Program constants (lib/constants.ts, MODERATION)                        *)
(***************************************************************************)
MODEL == "omni-moderation-latest"

CONFIDENCE_THRESHOLD == 100000

HIGH_SENSITIVITY_THRESHOLD == 50000

CACHE_TTL_HOURS == 1

HIGH_SENSITIVITY_CATEGORIES ==
    <<"hate", "hate/threatening", "harassment", "harassment/threatening">>

\* Validation constants (lib/validations.ts)
MAX_POST_LENGTH == 280

MIN_POST_LENGTH == 1

\* The keys of the `categories` object that moderateContent builds, in the
\* order of the object literal; Object.entries enumerates them in this order.
CategoryKeys ==
    <<"hate", "hate/threatening", "harassment", "harassment/threatening",
      "self-harm", "self-harm/intent", "self-harm/instructions",
      "sexual", "sexual/minors", "violence", "violence/graphic">>

Range(s) == {s[i] : i \in DOMAIN s}

CategorySet == Range(CategoryKeys)

(***************************************************************************)
(* Bounds of the model                                                     *)
(***************************************************************************)
\* Largest number of result units in a classifier response.
MaxUnits == 2

\* Scores given to the probed categories: zero, and the values just below
\* and exactly at each of the two thresholds.
ProbeScores == {0, 49999, 50000, 99999, 100000}

\* Scores given to a probed category whose flag is true: zero, and a score
\* that is below one threshold and above the other.
FlaggedProbeScores == {0, 99999}

(***************************************************************************)
(* analyzeModeration                                                       *)
(***************************************************************************)
\* Array.prototype.includes on a sequence.
includes(seq, x) == \E i \in DOMAIN seq : seq[i] = x

\* `score >= threshold`, mutated to a strict comparison.
reachesThresholdStrict(score, threshold) == score > threshold

\* `score >= threshold` of the violation test.
reachesThreshold(score, threshold) == score >= threshold

\* The threshold selection, mutated to use the stricter threshold everywhere.
thresholdOfAllHigh(category) == HIGH_SENSITIVITY_THRESHOLD

\* The threshold selected for a category.
thresholdOf(category) ==
    IF includes(HIGH_SENSITIVITY_CATEGORIES, category)
    THEN HIGH_SENSITIVITY_THRESHOLD
    ELSE CONFIDENCE_THRESHOLD

\* The violation test, mutated to look at the score alone.
isViolationByScore(flagged, score, category) ==
    reachesThreshold(score, thresholdOf(category))

\* The violation test `flagged || score >= threshold`.
isViolation(flagged, score, category) ==
    flagged \/ reachesThreshold(score, thresholdOf(category))

\* The guarded push, mutated to push without the includes test.
pushCategoryAlways(flaggedCategories, category) ==
    Append(flaggedCategories, category)

\* if (!flaggedCategories.includes(category)) flaggedCategories.push(category)
pushCategory(flaggedCategories, category) ==
    IF ~includes(flaggedCategories, category)
    THEN Append(flaggedCategories, category)
    ELSE flaggedCategories

\* The running maximum, mutated to keep the last score read.
trackMaxLast(maxConfidence, score) == score

\* if (score > maxConfidence) maxConfidence = score
trackMax(maxConfidence, score) ==
    IF score > maxConfidence THEN score ELSE maxConfidence

\* A property whose value is undefined is a key outside the DOMAIN of the
\* object.  truthy(obj, key) is the value of obj[key] as a condition:
\* undefined is falsy.
truthy(obj, key) == key \in DOMAIN obj /\ obj[key]

\* One iteration of the inner loop, on the accumulated
\* [flaggedCategories, maxConfidence, hasViolation].  With the score
\* undefined both `score > maxConfidence` and `score >= threshold` are
\* false.
analyzeCategory(acc, result, category) ==
    LET flagged == truthy(result.categories, category)
    IN  IF category \in DOMAIN result.category_scores
        THEN LET score     == result.category_scores[category]
                 violation == isViolation(flagged, score, category)
             IN  [flaggedCategories |->
                      IF violation THEN pushCategory(acc.flaggedCategories, category)
                                   ELSE acc.flaggedCategories,
                  maxConfidence |-> trackMax(acc.maxConfidence, score),
                  hasViolation  |-> acc.hasViolation \/ violation]
        ELSE [flaggedCategories |->
                  IF flagged THEN pushCategory(acc.flaggedCategories, category)
                             ELSE acc.flaggedCategories,
              maxConfidence |-> acc.maxConfidence,
              hasViolation  |-> acc.hasViolation \/ flagged]

\* The inner loop over Object.entries(result.categories), from entry i on.
RECURSIVE analyzeCategories(_, _, _)
analyzeCategories(acc, result, i) ==
    IF i > Len(CategoryKeys) THEN acc
    ELSE analyzeCategories(analyzeCategory(acc, result, CategoryKeys[i]), result, i + 1)

\* The unit-level test `if (result.flagged) hasViolation = true`, left out.
unitFlagIgnored(acc, result) == acc

\* The unit-level test `if (result.flagged) hasViolation = true`.
unitFlag(acc, result) ==
    [acc EXCEPT !.hasViolation = acc.hasViolation \/ result.flagged]

\* The outer loop over moderationResult.results, from unit u on.
RECURSIVE analyzeResults(_, _, _)
analyzeResults(acc, results, u) ==
    IF u > Len(results) THEN acc
    ELSE analyzeResults(analyzeCategories(unitFlag(acc, results[u]), results[u], 1),
                        results, u + 1)

analyzeModeration(moderationResult) ==
    LET acc == analyzeResults([flaggedCategories |-> <<>>,
                               maxConfidence     |-> 0,
                               hasViolation      |-> FALSE],
                              moderationResult.results, 1)
    IN  [isAllowed         |-> ~acc.hasViolation,
         moderationResult  |-> moderationResult,
         flaggedCategories |-> acc.flaggedCategories,
         confidenceScore   |-> acc.maxConfidence]

(***************************************************************************)
(* The moderation cache key (getModerationCacheKey)                        *)
(***************************************************************************)
\* The longest text that passes validation ("a" repeated), and the shortest
\* that is too long.
LongestText == [i \in 1 .. MAX_POST_LENGTH |-> 97]

TooLongText == [i \in 1 .. MAX_POST_LENGTH + 1 |-> 97]

\* Texts are sequences of UTF-16 code units, what charCodeAt reads:
\* "Aa", "BB", "zzzzzzz" and the two long texts.
Contents == {<<65, 97>>, <<66, 66>>, <<122, 122, 122, 122, 122, 122, 122>>,
             LongestText, TooLongText}

\* The texts submitted in one run: two texts with the same cache key, or two
\* texts with different keys.
SubmittedSets == {{<<65, 97>>, <<66, 66>>},
                  {<<65, 97>>, <<122, 122, 122, 122, 122, 122, 122>>}}

\* A 32-bit integer as two 16-bit halves, so that no intermediate value of
\* the hash leaves the integers the checker computes with.
Lo16(h) == h % 65536

Hi16(h) == (h \div 65536) % 65536

\* ToInt32 of the value whose 16-bit halves are hi and lo.
toInt32(hi, lo) == (IF hi >= 32768 THEN hi - 65536 ELSE hi) * 65536 + lo

\* hash = ((hash << 5) - hash) + char; hash = hash & hash
hashStep(hash, char) ==
    LET lo    == 32 * Lo16(hash) - Lo16(hash) + char
        carry == lo \div 65536
        hi    == (32 * Hi16(hash) - Hi16(hash) + carry) % 65536
    IN  toInt32(hi, lo % 65536)

\* The loop of getModerationCacheKey over content[lo..hi], from left to
\* right; the range is halved so that long texts need no deep recursion.
RECURSIVE hashFrom(_, _, _, _)
hashFrom(hash, content, lo, hi) ==
    IF lo > hi THEN hash
    ELSE IF lo = hi THEN hashStep(hash, content[lo])
    ELSE LET mid  == (lo + hi) \div 2
             left == hashFrom(hash, content, lo, mid)
         IN  \* the test has the left half computed before the right half
             IF left \in Int THEN hashFrom(left, content, mid + 1, hi) ELSE left

\* Number.prototype.toString(36) of a non-negative integer, as its digits.
RECURSIVE digits36(_)
digits36(n) ==
    IF n < 36 THEN <<n>> ELSE Append(digits36(n \div 36), n % 36)

\* hash.toString(36): a sign and the base-36 digits of the magnitude.
toString36(n) ==
    IF n >= 0 THEN [neg |-> FALSE, digits |-> digits36(n)]
    ELSE LET r    == (36 - (n % 36)) % 36
             rest == 0 - ((n + r) \div 36)
         IN  [neg |-> TRUE,
              digits |-> IF rest = 0 THEN <<r>> ELSE Append(digits36(rest), r)]

\* The key `moderation_${hash.toString(36)}`; the fixed prefix is left out.
computeCacheKey(content) == toString36(hashFrom(0, content, 1, Len(content)))

\* The keys of the texts of the model, computed once.
cacheKeys == [content \in Contents |-> computeCacheKey(content)]

getModerationCacheKey(content) == cacheKeys[content]

(***************************************************************************)
(* State                                                                   *)
(***************************************************************************)
VARIABLES
    now,              \* Date.now(), in ms since the process started
    ticks,            \* how many times the clock has advanced
    moderationCache,  \* the Map: cache key -> [result, timestamp]
    calls,            \* the invocations of moderateContent, one per slot
    lastEval,         \* history: the moderateContent call that completed last
    submitted,        \* the texts that are submitted for moderation in this run
    input,            \* a moderation result handed to analyzeModeration
    analysis,         \* what analyzeModeration returned for `input`
    isClient,         \* db.isClient: whether `window` exists where db was built
    posts,            \* the post list stored under STORAGE_KEYS.POSTS
    nextId,           \* the posts created so far, plus one (ids are fresh uuids)
    moderate,         \* the POST /api/moderate request in progress
    create,           \* the POST /api/post request in progress
    feedback,         \* the arguments and the result of formatModerationFeedback
    publish,          \* the POST /api/twitter/publish request in progress
    tweet,            \* the POST /api/twitter/post request in progress
    postingCall,      \* history: the last request sent to the posting service
    retry,            \* the withRetry call in progress
    cookie,           \* the twitter_session cookie the browser holds
    sessionReply,     \* history: the last response of GET /api/auth/session
    health,           \* history: the last response of GET /api/health
    drafts,           \* the draft list stored under STORAGE_KEYS.DRAFTS
    dbOps,            \* how many db operations have been called
    form              \* the state of the CreatePost component and its calls in flight

\* The state of the helpers and handlers that no moderation or posting step
\* touches.
otherVars == <<retry, cookie, sessionReply, health, drafts, dbOps, form>>

\* What the moderation steps change, and what the routes change.
moderationVars ==
    <<now, ticks, moderationCache, calls, lastEval, submitted, input, analysis>>

postingVars ==
    <<moderate, create, feedback, isClient, posts, nextId, publish, tweet, postingCall>>

\* otherVars without the state of withRetry, and without that of the session.
besideRetry == <<cookie, sessionReply, health, drafts, dbOps, form>>

besideSession == <<retry, health, drafts, dbOps, form>>

besideHealth == <<retry, cookie, sessionReply, drafts, dbOps, form>>

besideDb == <<retry, cookie, sessionReply, health, form>>

besideForm == <<retry, cookie, sessionReply, health, drafts, dbOps>>

routeVars ==
    <<moderate, create, feedback, isClient, posts, nextId, publish, tweet, postingCall,
      otherVars>>

vars == <<now, ticks, moderationCache, calls, lastEval, submitted, input, analysis,
          moderate, create, feedback, isClient, posts, nextId, publish, tweet,
          postingCall, otherVars>>

\* Number of times the clock advances.
MaxTicks == 2

\* The slots for invocations of moderateContent: two can be in progress
\* together.
Calls == {1, 2}

maxAgeMs == CACHE_TTL_HOURS * 60 * 60 * 1000

\* The clock advances by a millisecond or by just under the cache lifetime,
\* so that ages of maxAgeMs - 1, maxAgeMs and maxAgeMs + 1 all occur.
TickSteps == {1, maxAgeMs - 1}

(***************************************************************************)
(* The classifier's responses                                              *)
(***************************************************************************)
\* The service may report categories beyond the eleven the program copies.
ApiCategorySet == CategorySet \cup {"illicit"}

ApiUnit(unitFlagged, flaggedSet, scores) ==
    [flagged         |-> unitFlagged,
     categories      |-> [c \in ApiCategorySet |-> c \in flaggedSet],
     category_scores |-> scores]

\* All scores below 0.01, nothing flagged.
CleanUnit ==
    ApiUnit(FALSE, {}, [c \in ApiCategorySet |-> IF c = "violence" THEN 2000 ELSE 1000])

\* harassment at 0.141 with every flag false.
HarassmentUnit ==
    ApiUnit(FALSE, {}, [c \in ApiCategorySet |-> IF c = "harassment" THEN 141000 ELSE 1000])

ResultLists == {<<CleanUnit>>, <<HarassmentUnit>>}

\* The responses the service may give to a request for `content`.  The id of
\* a response names the request it answers.
Responses(content) ==
    {[id |-> content, model |-> MODEL, results |-> rs] : rs \in ResultLists}

(***************************************************************************)
(* The moderation cache                                                    *)
(***************************************************************************)
\* isCacheValid with the comparison mutated to <=.
isCacheValidInclusive(timestamp) == now - timestamp <= maxAgeMs

isCacheValid(timestamp) == now - timestamp < maxAgeMs

NoResult == [id |-> <<>>, model |-> "", results |-> <<>>]

mapDelete(cache, key) == [k \in (DOMAIN cache) \ {key} |-> cache[k]]

mapSet(cache, key, value) ==
    [k \in (DOMAIN cache) \cup {key} |-> IF k = key THEN value ELSE cache[k]]

\* getCachedModeration mutated to renew the timestamp of the entry it returns.
getCachedModerationRenewing(content) ==
    LET cacheKey == getModerationCacheKey(content)
        present  == cacheKey \in DOMAIN moderationCache
    IN  IF present /\ isCacheValid(moderationCache[cacheKey].timestamp)
        THEN [found |-> TRUE, result |-> moderationCache[cacheKey].result,
              cache |-> mapSet(moderationCache, cacheKey,
                               [moderationCache[cacheKey] EXCEPT !.timestamp = now])]
        ELSE [found |-> FALSE, result |-> NoResult,
              cache |-> IF present THEN mapDelete(moderationCache, cacheKey)
                                   ELSE moderationCache]

\* getCachedModeration: what it returns (found = FALSE for null) and the
\* cache it leaves.
getCachedModeration(content) ==
    LET cacheKey == getModerationCacheKey(content)
        present  == cacheKey \in DOMAIN moderationCache
    IN  IF present /\ isCacheValid(moderationCache[cacheKey].timestamp)
        THEN [found |-> TRUE, result |-> moderationCache[cacheKey].result,
              cache |-> moderationCache]
        ELSE [found |-> FALSE, result |-> NoResult,
              cache |-> IF present THEN mapDelete(moderationCache, cacheKey)
                                   ELSE moderationCache]

\* cacheModeration that stores nothing.
cacheModerationSkipped(content, result) == moderationCache

\* cacheModeration that keeps an entry already stored under the key.
cacheModerationKeepFirst(content, result) ==
    IF getModerationCacheKey(content) \in DOMAIN moderationCache
    THEN moderationCache
    ELSE mapSet(moderationCache, getModerationCacheKey(content),
                [result |-> result, timestamp |-> now])

\* cacheModeration mutated to store no result without units.
cacheModerationUnlessEmpty(content, result) ==
    IF result.results = <<>> THEN moderationCache
    ELSE mapSet(moderationCache, getModerationCacheKey(content),
                [result |-> result, timestamp |-> now])

\* cacheModeration: the cache it leaves.
cacheModeration(content, result) ==
    mapSet(moderationCache, getModerationCacheKey(content),
           [result |-> result, timestamp |-> now])

\* cleanupModerationCache, mutated to clear the whole cache.
cleanupModerationCacheAll == [k \in {} |-> NoResult]

\* cleanupModerationCache: the cache it leaves.
cleanupModerationCache ==
    [k \in {j \in DOMAIN moderationCache :
                ~(now - moderationCache[j].timestamp >= maxAgeMs)}
        |-> moderationCache[k]]

(***************************************************************************)
(* moderateContent                                                         *)
(***************************************************************************)
\* Reading a property of a property that is undefined throws a TypeError:
\* some unit of the response has no `categories` or no `category_scores`.
mapThrows(response) ==
    \E i \in DOMAIN response.results :
        \/ "categories" \notin DOMAIN response.results[i]
        \/ "category_scores" \notin DOMAIN response.results[i]

\* One result of the response, copied field by field into a
\* ModerationCategory: the eleven categories and nothing else.  A key that
\* the response lacks is copied as undefined.
toModerationCategory(result) ==
    [flagged         |-> result.flagged,
     categories      |-> [c \in CategorySet \cap DOMAIN result.categories |->
                             result.categories[c]],
     category_scores |-> [c \in CategorySet \cap DOMAIN result.category_scores |->
                             result.category_scores[c]]]

toModerationResult(response) ==
    [id      |-> response.id,
     model   |-> response.model,
     results |-> [i \in DOMAIN response.results |->
                     toModerationCategory(response.results[i])]]

\* The catch block, mutated to fail open.
errorDecisionOpen ==
    [isAllowed         |-> TRUE,
     moderationResult  |-> [id |-> <<101, 114, 114, 111, 114>>, model |-> MODEL, results |-> <<>>],
     flaggedCategories |-> <<>>,
     confidenceScore   |-> 0]

\* The decision of the catch block.
errorDecision ==
    [isAllowed         |-> FALSE,
     moderationResult  |-> [id |-> <<101, 114, 114, 111, 114>>, model |-> MODEL, results |-> <<>>],
     flaggedCategories |-> <<"error">>,
     confidenceScore   |-> 1000000]

NoDecision ==
    [isAllowed         |-> FALSE,
     moderationResult  |-> NoResult,
     flaggedCategories |-> <<>>,
     confidenceScore   |-> 0]

IdleCall ==
    [pc |-> "idle", content |-> <<>>, lookup |-> "none", classifier |-> "none",
     decision |-> NoDecision]

IdlePublish == [pc |-> "idle", content |-> <<>>, slot |-> 0, postId |-> 0, status |-> 0]

IdleTweet == [pc |-> "idle", status |-> 0]

NoBody == [hasContent |-> FALSE, content |-> <<>>]

IdleModerate ==
    [pc |-> "idle", body |-> NoBody, slot |-> 0, status |-> 0, success |-> FALSE]

IdleCreate ==
    [pc |-> "idle", content |-> <<>>, slot |-> 0, status |-> 0, error |-> "",
     data |-> NoDecision]

NoFeedback == [flaggedCategories |-> <<>>, isAllowed |-> FALSE, message |-> ""]

\* withRetry before it is called.  `invocations` lists what each invocation
\* of fn did; `delay` is the last wait.
IdleRetry ==
    [pc |-> "idle", maxAttempts |-> 0, attempt |-> 0, invocations |-> <<>>,
     lastError |-> "undefined", delay |-> 0, result |-> ""]

NoPostingCall == [route |-> "none", text |-> <<>>, gate |-> "none"]

NoEval == [content |-> <<>>, status |-> "none", at |-> 0]

NoAnalysis == [isAllowed |-> FALSE, moderationResult |-> NoResult,
               flaggedCategories |-> <<"none">>, confidenceScore |-> 0]

\* moderateContent(content) up to the await of the classifier request or,
\* on a cache hit, up to its return, as call c.
moderateContentBegin(c, content) ==
    LET key     == getModerationCacheKey(content)
        expired == key \in DOMAIN moderationCache
        cached  == getCachedModeration(content)
    IN  /\ moderationCache' = cached.cache
        /\ IF cached.found
           THEN /\ calls' = [calls EXCEPT ![c] =
                      [pc |-> "done", content |-> content, lookup |-> "hit",
                       classifier |-> "none",
                       decision |-> analyzeModeration(cached.result)]]
                /\ lastEval' = [content |-> content, status |-> "hit",
                                at |-> moderationCache[key].timestamp]
           ELSE /\ calls' = [calls EXCEPT ![c] =
                      [pc |-> "awaiting", content |-> content,
                       lookup |-> IF expired THEN "expired" ELSE "absent",
                       classifier |-> "pending", decision |-> NoDecision]]
                /\ UNCHANGED lastEval

\* A slot keeps its last call until it is used again, which is not before
\* its caller has read the decision; the slots are taken in order.
SlotFree(c) ==
    /\ calls[c].pc # "awaiting"
    /\ ~(publish.pc = "moderating" /\ publish.slot = c)
    /\ ~(moderate.pc = "moderating" /\ moderate.slot = c)
    /\ ~(create.pc = "moderating" /\ create.slot = c)
    /\ \A b \in Calls : b < c => calls[b].pc # "idle"

\* POST /api/moderate with valid content calls moderateContent(content).
ModerateStart(c, content) ==
    /\ SlotFree(c)
    /\ moderateContentBegin(c, content)
    /\ UNCHANGED <<now, ticks, submitted, input, analysis>>
    /\ UNCHANGED routeVars

\* The classifier answered: the rest of the try block, or the catch block
\* when copying the response throws.
ClassifierRespond(c, response) ==
    /\ calls[c].pc = "awaiting"
    /\ IF mapThrows(response)
       THEN /\ calls' = [calls EXCEPT ![c].pc = "done", ![c].classifier = "malformed",
                                      ![c].decision = errorDecision]
            /\ lastEval' = [content |-> calls[c].content, status |-> "error", at |-> now]
            /\ UNCHANGED moderationCache
       ELSE LET moderationResult == toModerationResult(response)
            IN  /\ moderationCache' = cacheModeration(calls[c].content, moderationResult)
                /\ calls' = [calls EXCEPT ![c].pc = "done", ![c].classifier = "ok",
                                          ![c].decision = analyzeModeration(moderationResult)]
                /\ lastEval' = [content |-> calls[c].content, status |-> "stored",
                                at |-> now]
    /\ UNCHANGED <<now, ticks, submitted, input, analysis>>
    /\ UNCHANGED routeVars

\* The catch block, mutated to store the result of its decision in the cache.
ClassifierFailCaching(c) ==
    /\ calls[c].pc = "awaiting"
    /\ calls' = [calls EXCEPT ![c].pc = "done", ![c].classifier = "failed",
                              ![c].decision = errorDecision]
    /\ lastEval' = [content |-> calls[c].content, status |-> "error", at |-> now]
    /\ moderationCache' = cacheModeration(calls[c].content, errorDecision.moderationResult)
    /\ UNCHANGED <<now, ticks, submitted, input, analysis>>
    /\ UNCHANGED routeVars

\* The catch block, mutated to issue the request again instead of returning.
ClassifierFailRetry(c) ==
    /\ calls[c].pc = "awaiting"
    /\ calls' = [calls EXCEPT ![c].classifier =
                     IF calls[c].classifier = "pending" THEN "retrying" ELSE "pending"]
    /\ UNCHANGED <<now, ticks, moderationCache, lastEval, submitted, input, analysis>>
    /\ UNCHANGED routeVars

\* The classifier request failed or timed out: the catch block.
ClassifierFail(c) ==
    /\ calls[c].pc = "awaiting"
    /\ calls' = [calls EXCEPT ![c].pc = "done", ![c].classifier = "failed",
                              ![c].decision = errorDecision]
    /\ lastEval' = [content |-> calls[c].content, status |-> "error", at |-> now]
    /\ UNCHANGED <<now, ticks, moderationCache, submitted, input, analysis>>
    /\ UNCHANGED routeVars

\* The periodic cleanup runs cleanupModerationCache.
Sweep ==
    /\ moderationCache' = cleanupModerationCache
    /\ UNCHANGED <<now, ticks, calls, lastEval, submitted, input, analysis>>
    /\ UNCHANGED routeVars

Tick(d) ==
    /\ ticks < MaxTicks
    /\ now' = now + d
    /\ ticks' = ticks + 1
    /\ UNCHANGED <<moderationCache, calls, lastEval, submitted, input, analysis>>
    /\ UNCHANGED routeVars

EmptyMap == [k \in {} |-> NoResult]

\* No twitter_session cookie.  A cookie that is present holds the JSON text
\* of a session (wellFormed) or something JSON.parse rejects.
NoCookie == [present |-> FALSE, wellFormed |-> FALSE, expiresAt |-> 0]

NoSessionReply ==
    [pc |-> "none", cookie |-> NoCookie, at |-> 0, user |-> "null", authenticated |-> FALSE,
     deletesCookie |-> FALSE]

NoStats == [posts |-> 0, drafts |-> 0, totalSize |-> 0, needsCleanup |-> FALSE]

NoHealth ==
    [pc |-> "none", stats |-> NoStats, httpStatus |-> 0, success |-> FALSE, status |-> "",
     storageHealth |-> "", storageAvailable |-> FALSE, issues |-> <<>>, cleanup |-> "none"]

\* Number of db operations in a run.
MaxDbOps == 3

\* The moderation result a component holds: null, or the response computed
\* for a text (`of`).
NoFormResult == [present |-> FALSE, of |-> <<>>, isAllowed |-> FALSE]

NoFlight == [pc |-> "none", kind |-> "none", content |-> <<>>, moderationResult |-> NoFormResult]

\* The CreatePost component as mounted.  `saved` lists what createPost has
\* stored with db.addPost, `allowed` the texts the moderation API has
\* allowed.
IdleForm ==
    [content |-> <<>>, moderationState |-> "idle", moderationResult |-> NoFormResult,
     lastModeratedContent |-> <<>>, flights |-> <<NoFlight, NoFlight>>, saved |-> <<>>,
     allowed |-> {}]

InitOther ==
    /\ retry = IdleRetry
    /\ cookie = NoCookie
    /\ sessionReply = NoSessionReply
    /\ health = NoHealth
    /\ drafts = <<>>
    /\ dbOps = 0
    /\ form = IdleForm

Init ==
    /\ now = 0
    /\ ticks = 0
    /\ moderationCache = EmptyMap
    /\ calls = [c \in Calls |-> IdleCall]
    /\ lastEval = NoEval
    /\ submitted \in SubmittedSets
    /\ input = NoResult
    /\ analysis = NoAnalysis
    /\ moderate = IdleModerate
    /\ create = IdleCreate
    /\ feedback = NoFeedback
    /\ InitOther
    /\ isClient = FALSE
    /\ posts = <<>>
    /\ nextId = 1
    /\ publish = IdlePublish
    /\ tweet = IdleTweet
    /\ postingCall = NoPostingCall

Next ==
    \/ \E c \in Calls, content \in submitted : ModerateStart(c, content)
    \/ \E c \in Calls : \E response \in Responses(calls[c].content) :
           ClassifierRespond(c, response)
    \/ \E c \in Calls : ClassifierFail(c)
    \/ Sweep
    \/ \E d \in TickSteps : Tick(d)

Spec == Init /\ [][Next]_vars

(***************************************************************************)
(* The post store (db.getPosts, setPosts, addPost, updatePost)             *)
(***************************************************************************)
MAX_POSTS_HISTORY == 100

\* Number of posts created in a run.
MaxPosts == 2

\* The slice of setPosts mutated to keep one item more.
limitedPostsLoose(list) ==
    SubSeq(list, 1, IF Len(list) < MAX_POSTS_HISTORY + 1 THEN Len(list)
                    ELSE MAX_POSTS_HISTORY + 1)

\* posts.slice(0, STORAGE.MAX_POSTS_HISTORY)
limitedPosts(list) ==
    SubSeq(list, 1, IF Len(list) < MAX_POSTS_HISTORY THEN Len(list) ELSE MAX_POSTS_HISTORY)

\* getPosts: the stored list, or the default [] where there is no window.
getPosts == IF isClient THEN posts ELSE <<>>

\* setPosts: whether the write succeeds (writeOk: localStorage.setItem does
\* not throw), and the list stored afterwards.
setPosts(list, writeOk) ==
    IF isClient /\ writeOk
    THEN [ok |-> TRUE, posts |-> limitedPosts(list)]
    ELSE [ok |-> FALSE, posts |-> posts]

\* addPost: the new post at the front; ok = FALSE stands for the null result.
addPost(content, status, writeOk) ==
    LET newPost == [id |-> nextId, content |-> content, status |-> status,
                    twitterPostId |-> 0]
    IN  setPosts(<<newPost>> \o getPosts, writeOk)

\* updatePost(id, {status, twitterPostId}): the list stored afterwards.
updatePost(id, status, twitterPostId, writeOk) ==
    LET list  == getPosts
        found == {i \in DOMAIN list : list[i].id = id}
    IN  IF found = {} THEN [ok |-> FALSE, posts |-> posts]
        ELSE LET index == CHOOSE i \in found : \A j \in found : i <= j
             IN  setPosts([list EXCEPT ![index].status = status,
                                       ![index].twitterPostId = twitterPostId],
                          writeOk)

(***************************************************************************)
(* POST /api/twitter/publish                                               *)
(***************************************************************************)
\* createPostSchema: a string of MIN_POST_LENGTH to MAX_POST_LENGTH units.
validContent(content) ==
    Len(content) >= MIN_POST_LENGTH /\ Len(content) <= MAX_POST_LENGTH

RouteIdle(r) == r.pc \in {"idle", "responded"}

\* The handler up to the await of moderateContent: validation, the token
\* check, and the start of moderateContent as call c.
PublishStart(c, content, accessToken) ==
    /\ RouteIdle(publish)
    /\ nextId <= MaxPosts
    /\ IF ~validContent(content)
       THEN /\ publish' = [IdlePublish EXCEPT !.pc = "responded", !.status = 400]
            /\ UNCHANGED <<moderationCache, calls, lastEval>>
       ELSE IF ~accessToken
       THEN /\ publish' = [IdlePublish EXCEPT !.pc = "responded", !.status = 401]
            /\ UNCHANGED <<moderationCache, calls, lastEval>>
       ELSE /\ SlotFree(c)
            /\ moderateContentBegin(c, content)
            /\ publish' = [IdlePublish EXCEPT !.pc = "moderating", !.content = content,
                                              !.slot = c]
    /\ UNCHANGED <<now, ticks, submitted, input, analysis>>
    /\ UNCHANGED <<otherVars, moderate, create, feedback, isClient, posts, nextId, tweet,
                   postingCall>>

\* The `if (!moderationResult.isAllowed)` test of the handler.
blockedByModeration(decision) == ~decision.isAllowed

\* moderateContent returned: the gate on the decision, the pending post, and
\* the request to the posting service, up to its await.
PublishModerated(writeOk) ==
    /\ publish.pc = "moderating"
    /\ calls[publish.slot].pc = "done"
    /\ LET decision == calls[publish.slot].decision
           added    == addPost(publish.content, "pending", writeOk)
       IN  IF blockedByModeration(decision)
           THEN /\ publish' = [IdlePublish EXCEPT !.pc = "responded", !.status = 400]
                /\ UNCHANGED <<posts, nextId, postingCall>>
           ELSE IF ~added.ok
           THEN /\ publish' = [IdlePublish EXCEPT !.pc = "responded", !.status = 500]
                /\ UNCHANGED <<posts, nextId, postingCall>>
           ELSE /\ posts' = added.posts
                /\ nextId' = nextId + 1
                /\ postingCall' =
                       [route |-> "publish", text |-> publish.content,
                        gate |-> IF decision.isAllowed THEN "allowed" ELSE "blocked"]
                /\ publish' = [publish EXCEPT !.pc = "posting", !.postId = nextId]
    /\ UNCHANGED <<now, ticks, moderationCache, calls, lastEval, submitted, input, analysis>>
    /\ UNCHANGED <<otherVars, moderate, create, feedback, isClient, tweet>>

\* The posting service accepted the tweet (twitterPostId names it).
PublishPosted(twitterPostId, writeOk) ==
    /\ publish.pc = "posting"
    /\ posts' = updatePost(publish.postId, "posted", twitterPostId, writeOk).posts
    /\ publish' = [IdlePublish EXCEPT !.pc = "responded", !.postId = publish.postId,
                                        !.status = 201]
    /\ UNCHANGED <<now, ticks, moderationCache, calls, lastEval, submitted, input, analysis>>
    /\ UNCHANGED <<otherVars, moderate, create, feedback, isClient, nextId, tweet, postingCall>>

\* The posting request threw; errorStatus is the status handleTwitterError
\* gives the error, 0 when it gives none.
PublishFailed(errorStatus, writeOk) ==
    /\ publish.pc = "posting"
    /\ posts' = updatePost(publish.postId, "failed", 0, writeOk).posts
    /\ publish' = [IdlePublish EXCEPT !.pc = "responded", !.postId = publish.postId,
                                      !.status = IF errorStatus # 0 THEN errorStatus ELSE 500]
    /\ UNCHANGED <<now, ticks, moderationCache, calls, lastEval, submitted, input, analysis>>
    /\ UNCHANGED <<otherVars, moderate, create, feedback, isClient, nextId, tweet, postingCall>>

(***************************************************************************)
(* POST /api/twitter/post                                                  *)
(***************************************************************************)
\* The twitter_session cookie of a request: absent, or a session with its
\* expiry.
Sessions ==
    {[present |-> FALSE, expiresAt |-> 0]} \cup
    {[present |-> TRUE, expiresAt |-> e] : e \in {now - 1, now, now + 1}}

\* The handler up to the await of postTweet.
TweetStart(session, text) ==
    /\ RouteIdle(tweet)
    /\ IF ~session.present
       THEN tweet' = [pc |-> "responded", status |-> 401] /\ UNCHANGED postingCall
       ELSE IF now > session.expiresAt
       THEN tweet' = [pc |-> "responded", status |-> 401] /\ UNCHANGED postingCall
       ELSE IF Len(text) = 0
       THEN tweet' = [pc |-> "responded", status |-> 400] /\ UNCHANGED postingCall
       ELSE IF Len(text) > 280
       THEN tweet' = [pc |-> "responded", status |-> 400] /\ UNCHANGED postingCall
       ELSE /\ tweet' = [pc |-> "posting", status |-> 0]
            /\ postingCall' = [route |-> "post", text |-> text, gate |-> "none"]
    /\ UNCHANGED <<now, ticks, moderationCache, calls, lastEval, submitted, input, analysis>>
    /\ UNCHANGED <<otherVars, moderate, create, feedback, isClient, posts, nextId, publish>>

\* postTweet returned (ok) or threw.
TweetDone(ok) ==
    /\ tweet.pc = "posting"
    /\ tweet' = [tweet EXCEPT !.pc = "responded", !.status = IF ok THEN 200 ELSE 500]
    /\ UNCHANGED <<now, ticks, moderationCache, calls, lastEval, submitted, input, analysis>>
    /\ UNCHANGED <<otherVars, moderate, create, feedback, isClient, posts, nextId, publish,
                   postingCall>>

\* The routes run where db has a window (a browser-like test environment)
\* or where it has none (the server).
InitPublish ==
    /\ now = 0
    /\ ticks = 0
    /\ moderationCache = EmptyMap
    /\ calls = [c \in Calls |-> IdleCall]
    /\ lastEval = NoEval
    /\ submitted = {<<65, 97>>, <<66, 66>>}
    /\ input = NoResult
    /\ analysis = NoAnalysis
    /\ moderate = IdleModerate
    /\ create = IdleCreate
    /\ feedback = NoFeedback
    /\ InitOther
    /\ isClient \in BOOLEAN
    /\ posts = <<>>
    /\ nextId = 1
    /\ publish = IdlePublish
    /\ tweet = IdleTweet
    /\ postingCall = NoPostingCall

NextPublish ==
    \/ \E c \in Calls, content \in submitted \cup {<<>>}, accessToken \in BOOLEAN :
           PublishStart(c, content, accessToken)
    \/ \E c \in Calls : \E response \in Responses(calls[c].content) :
           ClassifierRespond(c, response)
    \/ \E c \in Calls : ClassifierFail(c)
    \/ \E writeOk \in BOOLEAN : PublishModerated(writeOk)
    \/ \E twitterPostId \in {7}, writeOk \in BOOLEAN : PublishPosted(twitterPostId, writeOk)
    \/ \E errorStatus \in {0, 401}, writeOk \in BOOLEAN : PublishFailed(errorStatus, writeOk)
    \/ \E session \in Sessions, text \in submitted \cup {<<>>} : TweetStart(session, text)
    \/ \E ok \in BOOLEAN : TweetDone(ok)

SpecPublish == InitPublish /\ [][NextPublish]_vars

(***************************************************************************)
(* analyzeModeration on its own: the inputs are moderation results of up   *)
(* to MaxUnits units in which up to two (unit, category) places are        *)
(* probed with a flag and a probe score, all other places being             *)
(* unflagged with score 0, under every choice of the unit-level flags.     *)
(***************************************************************************)
NoProbe == <<0, "none">>

ProbePlaces(n) == ((1 .. n) \X CategorySet) \cup {NoProbe}

ProbeValues ==
    [flagged : {FALSE}, score : ProbeScores] \cup
    [flagged : {TRUE}, score : FlaggedProbeScores]

ProbedResults(n, unitFlags, p1, v1, p2, v2) ==
    [u \in 1 .. n |->
        [flagged         |-> unitFlags[u],
         categories      |-> [c \in CategorySet |->
                                 IF <<u, c>> = p2 THEN v2.flagged
                                 ELSE IF <<u, c>> = p1 THEN v1.flagged
                                 ELSE FALSE],
         category_scores |-> [c \in CategorySet |->
                                 IF <<u, c>> = p2 THEN v2.score
                                 ELSE IF <<u, c>> = p1 THEN v1.score
                                 ELSE 0]]]

InitAnalyze ==
    /\ now = 0
    /\ ticks = 0
    /\ moderationCache = EmptyMap
    /\ calls = [c \in Calls |-> IdleCall]
    /\ lastEval = NoEval
    /\ submitted = {}
    /\ \E n \in 0 .. MaxUnits :
       \E unitFlags \in [1 .. n -> BOOLEAN] :
       \E p1 \in ProbePlaces(n), p2 \in ProbePlaces(n) :
       \E v1 \in ProbeValues, v2 \in ProbeValues :
           input = [id |-> <<>>, model |-> MODEL,
                    results |-> ProbedResults(n, unitFlags, p1, v1, p2, v2)]
    /\ analysis = NoAnalysis
    /\ moderate = IdleModerate
    /\ create = IdleCreate
    /\ feedback = NoFeedback
    /\ InitOther
    /\ isClient = FALSE
    /\ posts = <<>>
    /\ nextId = 1
    /\ publish = IdlePublish
    /\ tweet = IdleTweet
    /\ postingCall = NoPostingCall

AnalyzeInput ==
    /\ analysis = NoAnalysis
    /\ analysis' = analyzeModeration(input)
    /\ UNCHANGED <<now, ticks, moderationCache, calls, lastEval, submitted, input>>
    /\ UNCHANGED routeVars

NextAnalyze == AnalyzeInput

SpecAnalyze == InitAnalyze /\ [][NextAnalyze]_vars

(***************************************************************************)
(* Properties of the threshold policy (checked under SpecAnalyze)          *)
(***************************************************************************)
Analyzed == analysis # NoAnalysis

Units == DOMAIN input.results

\* The threshold of a category's class, as the specification states it.
ClassThreshold(c) ==
    IF c \in {"hate", "hate/threatening", "harassment", "harassment/threatening"}
    THEN 50000 ELSE 100000

FlagOf(u, c) == input.results[u].categories[c]

ScoreOf(u, c) == input.results[u].category_scores[c]

\* Category c counts as a violation in unit u.
Violates(u, c) == FlagOf(u, c) \/ ScoreOf(u, c) >= ClassThreshold(c)

NoUnitFlagged == \A u \in Units : ~input.results[u].flagged

AllCategoriesClean ==
    \A u \in Units : \A c \in CategorySet :
        ~FlagOf(u, c) /\ ScoreOf(u, c) < ClassThreshold(c)

AllScores == {ScoreOf(u, c) : u \in Units, c \in CategorySet}

\* The largest score of the response (0 when it has no unit).
MaxScore ==
    IF AllScores = {} THEN 0
    ELSE CHOOSE m \in AllScores : \A s \in AllScores : m >= s

\* C6: confidenceScore is the largest score over all categories of all units.
C6_ConfidenceIsMaxScore ==
    Analyzed => analysis.confidenceScore = MaxScore

\* A blocked decision whose largest score belongs to a category that is not
\* listed.
C6_Witness ==
    /\ Analyzed
    /\ analysis.flaggedCategories # <<>>
    /\ analysis.confidenceScore > 0
    /\ \A u \in Units : \A c \in CategorySet :
          ScoreOf(u, c) = analysis.confidenceScore =>
              c \notin Range(analysis.flaggedCategories)

KeyIndex(c) == CHOOSE i \in DOMAIN CategoryKeys : CategoryKeys[i] = c

\* When category c is first seen as a violation, iterating units and then
\* categories.
FirstSeen(c) ==
    LET seen == {(u - 1) * Len(CategoryKeys) + KeyIndex(c) :
                     u \in {v \in Units : Violates(v, c)}}
    IN  CHOOSE m \in seen : \A n \in seen : m <= n

\* C7: flaggedCategories holds exactly the categories that are a violation in
\* some unit, each once, in first-seen order.
C7_FlaggedCategoriesAggregate ==
    Analyzed =>
        LET fc == analysis.flaggedCategories
        IN  /\ Range(fc) = {c \in CategorySet : \E u \in Units : Violates(u, c)}
            /\ \A i \in DOMAIN fc : \A j \in DOMAIN fc : fc[i] = fc[j] => i = j
            /\ \A i \in DOMAIN fc : \A j \in DOMAIN fc :
                   i < j => FirstSeen(fc[i]) < FirstSeen(fc[j])

\* Two units: the first violates on violence, the second on hate, so the
\* list is in unit order and not in category order.
C7_Witness ==
    /\ Analyzed
    /\ analysis.flaggedCategories = <<"violence", "hate">>

(***************************************************************************)
(* Properties of moderateContent and the cache (checked under Spec)        *)
(***************************************************************************)
\* The step is the start of call c for text T.  The first four conjuncts
\* follow from ModerateStart(c, T); they come first because they are cheap
\* to evaluate.
StartsCall(c, T) ==
    /\ calls[c].pc # "awaiting"
    /\ calls'[c].content = T
    /\ now' = now
    /\ \A b \in Calls \ {c} : calls'[b] = calls[b]
    /\ ModerateStart(c, T)

\* C1: a call whose classifier request failed or timed out has returned, and
\* returned exactly isAllowed = false, flaggedCategories = ["error"],
\* confidenceScore = 1.0.
C1_FailClosed ==
    \A c \in Calls :
        calls[c].classifier = "failed" =>
            /\ calls[c].pc = "done"
            /\ calls[c].decision.isAllowed = FALSE
            /\ calls[c].decision.flaggedCategories = <<"error">>
            /\ calls[c].decision.confidenceScore = 1000000

\* A call has returned after its classifier request failed.
C1_Witness ==
    \E c \in Calls :
        /\ calls[c].pc = "done"
        /\ calls[c].classifier = "failed"
        /\ ~calls[c].decision.isAllowed

\* C9 as stated: a call for the text of the call that completed last, made
\* less than the TTL after that call, issues no remote call.
C9_SecondCallIsCacheHit ==
    [][\A c \in Calls : \A T \in submitted :
          (/\ lastEval.status # "none"
           /\ lastEval.content = T
           /\ now - lastEval.at < 3600000
           /\ StartsCall(c, T))
          => calls'[c].classifier = "none"]_vars

\* C9 as amended: when the call that completed last was for the same text
\* and stored its classification (or was itself served from the cache), the
\* next call for that text returns from the cache without a remote call
\* while less than the TTL has passed since the entry was stored, and issues
\* a new remote call once the TTL has passed.
C9_CacheIdempotence ==
    [][\A c \in Calls : \A T \in submitted :
          (/\ lastEval.status \in {"stored", "hit"}
           /\ lastEval.content = T
           /\ StartsCall(c, T))
          => IF now - lastEval.at < 3600000
             THEN calls'[c].pc = "done" /\ calls'[c].classifier = "none"
             ELSE calls'[c].pc = "awaiting" /\ calls'[c].classifier = "pending"]_vars

\* One call was served from the cache, from an entry obtained for its own
\* text, and a later call for the same text, made when the TTL had passed,
\* found the entry expired and issued a remote call.
C9_Witness ==
    \E c1 \in Calls, c2 \in Calls :
        /\ calls[c1].pc = "done"
        /\ calls[c1].lookup = "hit"
        /\ calls[c1].decision.moderationResult.id = calls[c1].content
        /\ lastEval = [content |-> calls[c1].content, status |-> "hit",
                       at |-> now - 3600000]
        /\ calls[c2].pc = "awaiting"
        /\ calls[c2].lookup = "expired"
        /\ calls[c2].content = calls[c1].content

\* C10: the lookup at the start of a call returns the payload of the entry
\* of its key exactly when the entry is younger than the TTL, leaving the
\* cache as it is; an entry of age TTL or more is deleted and reported
\* absent; with no entry the lookup reports absent and leaves the cache as
\* it is.
C10_LookupNeverStale ==
    [][\A c \in Calls : \A T \in submitted :
          StartsCall(c, T) =>
              LET k == getModerationCacheKey(T)
              IN  IF k \notin DOMAIN moderationCache
                  THEN /\ calls'[c].pc = "awaiting"
                       /\ moderationCache' = moderationCache
                  ELSE IF now - moderationCache[k].timestamp < 3600000
                  THEN /\ calls'[c].pc = "done"
                       /\ calls'[c].decision.moderationResult = moderationCache[k].result
                       /\ moderationCache' = moderationCache
                  ELSE /\ calls'[c].pc = "awaiting"
                       /\ DOMAIN moderationCache' = (DOMAIN moderationCache) \ {k}
                       /\ \A j \in DOMAIN moderationCache' :
                              moderationCache'[j] = moderationCache[j]]_vars

\* A lookup found an entry of age TTL or more and removed it, while the
\* entry of another key stayed.
C10_Witness ==
    \E c \in Calls :
        /\ calls[c].pc = "awaiting"
        /\ calls[c].lookup = "expired"
        /\ getModerationCacheKey(calls[c].content) \notin DOMAIN moderationCache
        /\ moderationCache # EmptyMap

(***************************************************************************)
(* Properties of the routes to the posting service (checked under          *)
(* SpecPublish)                                                            *)
(***************************************************************************)
\* C8: every request sent to the posting service, on either route, is sent
\* by a handler that holds a moderation decision for that text with
\* isAllowed = true.
C8_PostingGatedOnModeration ==
    postingCall.route # "none" => postingCall.gate = "allowed"

(***************************************************************************)
(* Properties of the cache key (checked under Spec)                        *)
(***************************************************************************)
\* C11: a decision returned to a call for text T, other than the decision
\* of the catch block, is computed from a classifier response obtained for
\* T itself (the id of a response names the request it answers).
C11_NoSharedEntry ==
    \A c \in Calls :
        (calls[c].pc = "done" /\ calls[c].classifier \in {"ok", "none"}) =>
            calls[c].decision.moderationResult.id = calls[c].content

(***************************************************************************)
(* moderateContent on responses that lack fields (SpecShape)               *)
(***************************************************************************)
\* An object without one of its keys.
omit(obj, key) == [k \in (DOMAIN obj) \ {key} |-> obj[k]]

\* A unit whose `categories` has no harassment key; its scores are complete
\* and low.
MissingFlagUnit ==
    [CleanUnit EXCEPT !.categories = omit(CleanUnit.categories, "harassment")]

\* A unit whose `category_scores` has no harassment key; its flags are
\* complete and false.
MissingScoreUnit ==
    [CleanUnit EXCEPT !.category_scores = omit(CleanUnit.category_scores, "harassment")]

\* A unit with no `category_scores` object at all.
NoScoresUnit == omit(CleanUnit, "category_scores")

ShapeResultLists ==
    {<<CleanUnit>>, <<HarassmentUnit>>, <<MissingFlagUnit>>, <<MissingScoreUnit>>,
     <<NoScoresUnit>>, <<HarassmentUnit, MissingScoreUnit>>}

ShapeResponses(content) ==
    {[id |-> content, model |-> MODEL, results |-> rs] : rs \in ShapeResultLists}

InitShape ==
    /\ now = 0
    /\ ticks = 0
    /\ moderationCache = EmptyMap
    /\ calls = [c \in Calls |-> IdleCall]
    /\ lastEval = NoEval
    /\ submitted = {<<65, 97>>, <<122, 122, 122, 122, 122, 122, 122>>}
    /\ input = NoResult
    /\ analysis = NoAnalysis
    /\ moderate = IdleModerate
    /\ create = IdleCreate
    /\ feedback = NoFeedback
    /\ InitOther
    /\ isClient = FALSE
    /\ posts = <<>>
    /\ nextId = 1
    /\ publish = IdlePublish
    /\ tweet = IdleTweet
    /\ postingCall = NoPostingCall

NextShape ==
    \/ \E c \in Calls, content \in submitted : ModerateStart(c, content)
    \/ \E c \in Calls : \E response \in ShapeResponses(calls[c].content) :
           ClassifierRespond(c, response)
    \/ \E c \in Calls : ClassifierFail(c)

SpecShape == InitShape /\ [][NextShape]_vars

\* The unit lacks the flag or the score of one of the eleven categories.
LacksCategoryField(unit) ==
    \/ "categories" \notin DOMAIN unit
    \/ "category_scores" \notin DOMAIN unit
    \/ \E c \in CategorySet :
          c \notin DOMAIN unit.categories \/ c \notin DOMAIN unit.category_scores

\* C12: when the classifier's response lacks the flag or the score of one of
\* the eleven categories in some unit, the call returns the fail-closed
\* decision of a classifier error.
C12_ShapeValidated ==
    [][\A c \in Calls : \A response \in ShapeResponses(calls[c].content) :
          (/\ \E i \in DOMAIN response.results :
                  LacksCategoryField(response.results[i])
           /\ ClassifierRespond(c, response))
          => calls'[c].decision = errorDecision]_vars

(***************************************************************************)
(* Properties of what the calls do to the cache (checked under Spec)       *)
(***************************************************************************)
\* C13 as stated: a call whose classifier request failed has removed no
\* entry (its lookup found none) and has added or changed none.
C13_FailingCallLeavesCache ==
    \A c \in Calls :
        calls[c].classifier = "failed" =>
            /\ calls[c].lookup = "absent"
            /\ \A k \in DOMAIN moderationCache :
                   moderationCache[k].result.id # errorDecision.moderationResult.id

\* C13 as amended: the step in which a classifier request fails leaves the
\* cache as it is; an entry is added or changed only by the step in which a
\* call that missed the cache receives its classification, and holds that
\* classification; no entry holds the result of the error decision; and the
\* only entries a step removes are of age TTL or more (the lookup of a call,
\* also of one that fails afterwards, evicts the expired entry of its key).
C13_EntriesOnlyFromClassification ==
    [][/\ \A c \in Calls :
              (calls[c].pc = "awaiting" /\ calls'[c].classifier = "failed")
                  => moderationCache' = moderationCache
       /\ \A k \in DOMAIN moderationCache' :
              /\ moderationCache'[k].result.id # errorDecision.moderationResult.id
              /\ (k \notin DOMAIN moderationCache \/ moderationCache'[k] # moderationCache[k])
                  => \E c \in Calls :
                        /\ calls[c].pc = "awaiting"
                        /\ calls[c].lookup \in {"absent", "expired"}
                        /\ calls'[c].classifier = "ok"
                        /\ k = getModerationCacheKey(calls[c].content)
                        /\ moderationCache'[k].result = calls'[c].decision.moderationResult
       /\ \A k \in (DOMAIN moderationCache) \ DOMAIN moderationCache' :
              now - moderationCache[k].timestamp >= 3600000]_vars

\* A call failed after its lookup had evicted the expired entry of its key,
\* and the entry of another key is still in the cache.
C13_Witness ==
    \E c \in Calls :
        /\ calls[c].pc = "done"
        /\ calls[c].classifier = "failed"
        /\ calls[c].lookup = "expired"
        /\ getModerationCacheKey(calls[c].content) \notin DOMAIN moderationCache
        /\ moderationCache # EmptyMap

SweepKeepsValid ==
    Sweep =>
        \A k \in DOMAIN moderationCache :
            now - moderationCache[k].timestamp < 3600000 =>
                /\ k \in DOMAIN moderationCache'
                /\ moderationCache'[k] = moderationCache[k]

\* A step that issues a remote call finds no entry younger than the TTL
\* under the key of its text: no remote call is redundant.
NoRedundantCall ==
    \A c \in Calls :
        (calls[c].pc # "awaiting" /\ calls'[c].pc = "awaiting") =>
            LET k == getModerationCacheKey(calls'[c].content)
            IN  k \in DOMAIN moderationCache =>
                    now - moderationCache[k].timestamp >= 3600000

\* Every decision a step returns, other than that of the catch block, is the
\* threshold analysis of a classifier response for the text of the call.
OwnTextDecision ==
    \A c \in Calls :
        (calls'[c].pc = "done" /\ calls'[c].classifier \in {"ok", "none"}) =>
            /\ calls'[c].decision.moderationResult.id = calls'[c].content
            /\ calls'[c].decision = analyzeModeration(calls'[c].decision.moderationResult)

\* C15: in every interleaving of sweeps with calls, a sweep removes no entry
\* that is still valid, no redundant remote call is issued (the claim allows
\* one), and each call returns the threshold analysis of a classifier
\* response for its own text.
C15_SweepRaceHarmless ==
    [][SweepKeepsValid /\ NoRedundantCall /\ OwnTextDecision]_vars

(***************************************************************************)
(* Concurrent calls for one text (checked under Spec)                      *)
(***************************************************************************)
\* C16: the step in which a call receives its classification returns a
\* decision and stores the classification under the key of its text with
\* the current time, overwriting an entry that an earlier call stored there
\* and leaving the other entries as they are: the key has a single entry,
\* that of the later store.
C16_LaterStoreOverwrites ==
    [][\A c \in Calls :
          (calls[c].pc = "awaiting" /\ calls'[c].classifier = "ok") =>
              LET k == getModerationCacheKey(calls[c].content)
              IN  /\ calls'[c].pc = "done"
                  /\ DOMAIN moderationCache' = (DOMAIN moderationCache) \cup {k}
                  /\ moderationCache'[k] =
                         [result    |-> calls'[c].decision.moderationResult,
                          timestamp |-> now]
                  /\ \A j \in (DOMAIN moderationCache) \ {k} :
                         moderationCache'[j] = moderationCache[j]]_vars

\* Two calls for one text both missed the cache and both received a
\* classification, with different results, before any time passed; both
\* returned a decision, and the cache holds one entry, with the result of
\* one call and not that of the other.
C16_Witness ==
    \E c1 \in Calls, c2 \in Calls :
        /\ now = 0
        /\ calls[c1].content = calls[c2].content
        /\ calls[c1].pc = "done" /\ calls[c1].lookup = "absent"
        /\ calls[c1].classifier = "ok"
        /\ calls[c2].pc = "done" /\ calls[c2].lookup = "absent"
        /\ calls[c2].classifier = "ok"
        /\ calls[c1].decision.isAllowed /\ ~calls[c2].decision.isAllowed
        /\ Cardinality(DOMAIN moderationCache) = 1
        /\ moderationCache[getModerationCacheKey(calls[c2].content)].result
               = calls[c2].decision.moderationResult

(***************************************************************************)
(* Termination of moderateContent (SpecLive)                               *)
(***************************************************************************)
\* The request of call c is settled: the classifier responds, or the
\* request fails or is cut off by the client's timeout.
Settle(c) ==
    \/ \E response \in ShapeResponses(calls[c].content) : ClassifierRespond(c, response)
    \/ ClassifierFail(c)

\* The client is built with a request timeout, so a pending request does
\* not stay pending forever.
SpecLive ==
    InitShape /\ [][NextShape]_vars /\ \A c \in Calls : WF_vars(Settle(c))

\* C17: every call that is waiting for the classifier eventually returns a
\* decision.
C17_EveryCallReturns ==
    \A c \in Calls :
        (calls[c].pc = "awaiting") ~>
            (calls[c].pc = "done" /\ calls[c].decision # NoDecision)

\* One call returned the analysis of a response and another the decision of
\* the catch block.
C17_Witness ==
    \E c1 \in Calls, c2 \in Calls :
        /\ calls[c1].pc = "done" /\ calls[c1].classifier = "ok"
        /\ calls[c1].decision = analyzeModeration(calls[c1].decision.moderationResult)
        /\ calls[c2].pc = "done" /\ calls[c2].classifier = "failed"
        /\ calls[c2].decision = errorDecision

(***************************************************************************)
(* POST /api/moderate (SpecModerate)                                       *)
(***************************************************************************)
\* The request bodies: no content field, empty content, "Aa", the longest
\* valid text and the shortest text that is too long.
ModerateBodies ==
    {NoBody} \cup
    {[hasContent |-> TRUE, content |-> t] :
         t \in {<<>>, <<65, 97>>, LongestText, TooLongText}}

\* moderatePostRequestSchema, mutated to have no upper limit.
validModerateRequestNoMax(body) ==
    body.hasContent /\ Len(body.content) >= 1

\* moderatePostRequestSchema: content is a string of 1 to MAX_POST_LENGTH
\* units.
validModerateRequest(body) ==
    body.hasContent /\ Len(body.content) >= 1 /\ Len(body.content) <= MAX_POST_LENGTH

\* The handler up to the await of moderateContent: validation, then the
\* start of moderateContent as call c.
ModerateRequest(c, body) ==
    /\ RouteIdle(moderate)
    /\ IF ~validModerateRequest(body)
       THEN /\ moderate' = [IdleModerate EXCEPT !.pc = "responded", !.body = body,
                                                !.status = 400, !.success = FALSE]
            /\ UNCHANGED <<moderationCache, calls, lastEval>>
       ELSE /\ SlotFree(c)
            /\ moderateContentBegin(c, body.content)
            /\ moderate' = [IdleModerate EXCEPT !.pc = "moderating", !.body = body,
                                                !.slot = c]
    /\ UNCHANGED <<now, ticks, submitted, input, analysis>>
    /\ UNCHANGED <<otherVars, create, feedback, isClient, posts, nextId, publish, tweet,
                   postingCall>>

\* moderateContent returned: the response carries its decision.
ModerateRespond ==
    /\ moderate.pc = "moderating"
    /\ calls[moderate.slot].pc = "done"
    /\ moderate' = [moderate EXCEPT !.pc = "responded", !.status = 200, !.success = TRUE]
    /\ UNCHANGED <<now, ticks, moderationCache, calls, lastEval, submitted, input, analysis>>
    /\ UNCHANGED <<otherVars, create, feedback, isClient, posts, nextId, publish, tweet,
                   postingCall>>

InitModerate ==
    /\ now = 0
    /\ ticks = 0
    /\ moderationCache = EmptyMap
    /\ calls = [c \in Calls |-> IdleCall]
    /\ lastEval = NoEval
    /\ submitted = {}
    /\ input = NoResult
    /\ analysis = NoAnalysis
    /\ moderate = IdleModerate
    /\ create = IdleCreate
    /\ feedback = NoFeedback
    /\ InitOther
    /\ isClient = FALSE
    /\ posts = <<>>
    /\ nextId = 1
    /\ publish = IdlePublish
    /\ tweet = IdleTweet
    /\ postingCall = NoPostingCall

NextModerate ==
    \/ \E c \in Calls, body \in ModerateBodies : ModerateRequest(c, body)
    \/ \E c \in Calls : \E response \in Responses(calls[c].content) :
           ClassifierRespond(c, response)
    \/ \E c \in Calls : ClassifierFail(c)
    \/ ModerateRespond

SpecModerate == InitModerate /\ [][NextModerate]_vars

\* C18: a request whose content is missing, empty or longer than 280 units
\* is answered 400 with success = false; a request for which moderateContent
\* is called has a content of 1 to 280 units, and so has every call of
\* moderateContent.
C18_ValidationBeforeModeration ==
    /\ (moderate.pc # "idle" /\
        (~moderate.body.hasContent \/ Len(moderate.body.content) = 0
             \/ Len(moderate.body.content) > 280))
           => (moderate.pc = "responded" /\ moderate.status = 400 /\ ~moderate.success)
    /\ \A c \in Calls :
           calls[c].pc # "idle" =>
               (Len(calls[c].content) >= 1 /\ Len(calls[c].content) <= 280)

\* A request with a content one unit too long was answered 400 after a
\* request with the longest valid content had been moderated.
C18_Witness ==
    /\ moderate.pc = "responded"
    /\ moderate.body.content = TooLongText
    /\ moderate.status = 400
    /\ \E c \in Calls : calls[c].pc = "done" /\ calls[c].content = LongestText

(***************************************************************************)
(* User-visible moderation messages                                        *)
(***************************************************************************)
\* Array.prototype.join over strings.
RECURSIVE join(_, _)
join(list, separator) ==
    IF list = <<>> THEN ""
    ELSE IF Len(list) = 1 THEN list[1]
    ELSE list[1] \o separator \o join(Tail(list), separator)

\* The displayNames object literal of getCategoryDisplayName.
displayNames ==
    [category \in CategorySet |->
        CASE category = "hate"                   -> "Hate Speech"
          [] category = "hate/threatening"       -> "Threatening Hate Speech"
          [] category = "harassment"             -> "Harassment"
          [] category = "harassment/threatening" -> "Threatening Harassment"
          [] category = "self-harm"              -> "Self-Harm"
          [] category = "self-harm/intent"       -> "Self-Harm Intent"
          [] category = "self-harm/instructions" -> "Self-Harm Instructions"
          [] category = "sexual"                 -> "Sexual Content"
          [] category = "sexual/minors"          -> "Sexual Content Involving Minors"
          [] category = "violence"               -> "Violence"
          [] category = "violence/graphic"       -> "Graphic Violence"]

\* What an object literal inherits from Object.prototype, as the text that
\* join gives the inherited value.
inheritedText ==
    [key \in {"constructor", "toString", "__proto__"} |->
        CASE key = "constructor" -> "function Object() { [native code] }"
          [] key = "toString"    -> "function toString() { [native code] }"
          [] key = "__proto__"   -> "[object Object]"]

\* getCategoryDisplayName: displayNames[category] || category.  The lookup
\* finds own keys first, then inherited ones; the empty string and unknown
\* keys find nothing and fall to the key itself.
getCategoryDisplayName(category) ==
    IF category \in DOMAIN displayNames THEN displayNames[category]
    ELSE IF category \in DOMAIN inheritedText THEN inheritedText[category]
    ELSE category

\* flaggedCategories.map(getCategoryDisplayName)
categoryNames(flaggedCategories) ==
    [i \in DOMAIN flaggedCategories |-> getCategoryDisplayName(flaggedCategories[i])]

formatModerationFeedback(flaggedCategories, isAllowed) ==
    IF isAllowed THEN "Content passed moderation checks."
    ELSE IF Len(flaggedCategories) = 0 THEN "Content flagged by moderation system."
    ELSE "Content flagged for: " \o join(categoryNames(flaggedCategories), ", ")
             \o ". Please revise your post."

(***************************************************************************)
(* POST /api/post                                                          *)
(***************************************************************************)
\* The service flags the text for a category the program does not copy.
FlaggedOnlyUnit ==
    ApiUnit(TRUE, {"illicit"}, [c \in ApiCategorySet |-> IF c = "illicit" THEN 900000 ELSE 1000])

\* hate flagged at 0.9.
HateUnit ==
    ApiUnit(TRUE, {"hate"}, [c \in ApiCategorySet |-> IF c = "hate" THEN 900000 ELSE 1000])

PostResponses(content) ==
    {[id |-> content, model |-> MODEL, results |-> rs] :
         rs \in {<<CleanUnit>>, <<HateUnit>>, <<FlaggedOnlyUnit>>}}

\* String.prototype.trim on code units: spaces at both ends removed.
RECURSIVE trim(_)
trim(content) ==
    IF content = <<>> THEN content
    ELSE IF Head(content) = 32 THEN trim(Tail(content))
    ELSE IF content[Len(content)] = 32 THEN trim(SubSeq(content, 1, Len(content) - 1))
    ELSE content

\* The bodies sent to the route: no text, "Aa", " Aa " and the text of 281
\* units.
PostContents == {<<>>, <<65, 97>>, <<32, 65, 97, 32>>, TooLongText}

\* The message of the first rule of createPostSchema that the content breaks.
validationMessage(content) ==
    IF Len(content) < MIN_POST_LENGTH THEN "Post cannot be empty"
    ELSE "Post cannot exceed 280 characters"

\* The handler up to the await of moderateContent: validation, then the
\* start of moderateContent as call c with the trimmed content.
PostStart(c, content) ==
    /\ RouteIdle(create)
    /\ nextId <= MaxPosts
    /\ IF ~validContent(content)
       THEN /\ create' = [IdleCreate EXCEPT !.pc = "responded", !.status = 400,
                                            !.error = validationMessage(content)]
            /\ UNCHANGED <<moderationCache, calls, lastEval>>
       ELSE /\ SlotFree(c)
            /\ moderateContentBegin(c, trim(content))
            /\ create' = [IdleCreate EXCEPT !.pc = "moderating", !.content = trim(content),
                                            !.slot = c]
    /\ UNCHANGED <<now, ticks, submitted, input, analysis>>
    /\ UNCHANGED <<otherVars, moderate, feedback, isClient, posts, nextId, publish, tweet,
                   postingCall>>

\* The error of the 400 response to blocked content.
blockedMessage(decision) ==
    "Content flagged for: " \o join(decision.flaggedCategories, ", ")

\* moderateContent returned: the gate on the decision, then the approved
\* post.
PostModerated(writeOk) ==
    /\ create.pc = "moderating"
    /\ calls[create.slot].pc = "done"
    /\ LET decision == calls[create.slot].decision
           added    == addPost(create.content, "approved", writeOk)
       IN  IF blockedByModeration(decision)
           THEN /\ create' = [create EXCEPT !.pc = "responded", !.status = 400,
                                            !.error = blockedMessage(decision),
                                            !.data = decision]
                /\ UNCHANGED <<posts, nextId>>
           ELSE IF ~added.ok
           THEN /\ create' = [create EXCEPT !.pc = "responded", !.status = 500,
                                            !.error = "Failed to create post"]
                /\ UNCHANGED <<posts, nextId>>
           ELSE /\ posts' = added.posts
                /\ nextId' = nextId + 1
                /\ create' = [create EXCEPT !.pc = "responded", !.status = 201]
    /\ UNCHANGED <<now, ticks, moderationCache, calls, lastEval, submitted, input, analysis>>
    /\ UNCHANGED <<otherVars, moderate, feedback, isClient, publish, tweet, postingCall>>

InitPost ==
    /\ now = 0
    /\ ticks = 0
    /\ moderationCache = EmptyMap
    /\ calls = [c \in Calls |-> IdleCall]
    /\ lastEval = NoEval
    /\ submitted = {}
    /\ input = NoResult
    /\ analysis = NoAnalysis
    /\ moderate = IdleModerate
    /\ create = IdleCreate
    /\ feedback = NoFeedback
    /\ InitOther
    /\ isClient \in BOOLEAN
    /\ posts = <<>>
    /\ nextId = 1
    /\ publish = IdlePublish
    /\ tweet = IdleTweet
    /\ postingCall = NoPostingCall

NextPost ==
    \/ \E c \in Calls, content \in PostContents : PostStart(c, content)
    \/ \E c \in Calls : \E response \in PostResponses(calls[c].content) :
           ClassifierRespond(c, response)
    \/ \E c \in Calls : ClassifierFail(c)
    \/ \E writeOk \in BOOLEAN : PostModerated(writeOk)

SpecPost == InitPost /\ [][NextPost]_vars

\* C19: the error of a response to blocked content is the generic message
\* "Content flagged by moderation system." when the decision has no flagged
\* category, and otherwise names a category; it is never the prefix with an
\* empty category list.
C19_BlockedCarriesExplanation ==
    (create.pc = "responded" /\ create.slot \in Calls /\ ~create.data.isAllowed
         /\ create.status = 400) =>
        /\ create.data.flaggedCategories = <<>>
               => create.error = "Content flagged by moderation system."
        /\ create.error # "Content flagged for: "

(***************************************************************************)
(* formatModerationFeedback on its own                                     *)
(***************************************************************************)
MaxCategories == 2

\* Category strings given to the formatter: known categories, an unknown
\* one, the empty string, and names every object inherits.
FeedbackKeys ==
    {"hate", "harassment", "violence/graphic", "unknown-category", "",
     "constructor", "__proto__"}

FeedbackLists ==
    UNION {[1 .. n -> FeedbackKeys] : n \in 0 .. MaxCategories}

\* One call formatModerationFeedback(flaggedCategories, isAllowed).
FormatFeedback(flaggedCategories, isAllowed) ==
    /\ feedback' = [flaggedCategories |-> flaggedCategories, isAllowed |-> isAllowed,
                    message |-> formatModerationFeedback(flaggedCategories, isAllowed)]
    /\ UNCHANGED <<now, ticks, moderationCache, calls, lastEval, submitted, input, analysis>>
    /\ UNCHANGED <<otherVars, moderate, create, isClient, posts, nextId, publish, tweet,
                   postingCall>>

InitFeedback ==
    /\ now = 0
    /\ ticks = 0
    /\ moderationCache = EmptyMap
    /\ calls = [c \in Calls |-> IdleCall]
    /\ lastEval = NoEval
    /\ submitted = {}
    /\ input = NoResult
    /\ analysis = NoAnalysis
    /\ moderate = IdleModerate
    /\ create = IdleCreate
    /\ feedback = NoFeedback
    /\ InitOther
    /\ isClient = FALSE
    /\ posts = <<>>
    /\ nextId = 1
    /\ publish = IdlePublish
    /\ tweet = IdleTweet
    /\ postingCall = NoPostingCall

NextFeedback ==
    \E flaggedCategories \in FeedbackLists, isAllowed \in BOOLEAN :
        FormatFeedback(flaggedCategories, isAllowed)

SpecFeedback == InitFeedback /\ [][NextFeedback]_vars

\* The name the formatter is to show for a category: the static display
\* name of a known category, any other string unchanged.
shownName(category) ==
    IF category \in CategorySet THEN displayNames[category] ELSE category

\* C20: formatModerationFeedback returns "Content passed moderation checks."
\* for an empty list with isAllowed = true, "Content flagged by moderation
\* system." for an empty list with isAllowed = false, and for a non-empty
\* list of a blocked decision "Content flagged for: <names joined by ', '>.
\* Please revise your post.", a known category shown by its display name
\* and any other string, the empty one included, shown verbatim.
C20_FeedbackFormat ==
    feedback.message # "" =>
        /\ (feedback.flaggedCategories = <<>> /\ feedback.isAllowed)
               => feedback.message = "Content passed moderation checks."
        /\ (feedback.flaggedCategories = <<>> /\ ~feedback.isAllowed)
               => feedback.message = "Content flagged by moderation system."
        /\ (feedback.flaggedCategories # <<>> /\ ~feedback.isAllowed)
               => feedback.message =
                      "Content flagged for: "
                          \o join([i \in DOMAIN feedback.flaggedCategories |->
                                      shownName(feedback.flaggedCategories[i])], ", ")
                          \o ". Please revise your post."

(***************************************************************************)
(* withRetry                                                               *)
(***************************************************************************)
\* The largest maxAttempts a caller passes (3 is the default).
MaxAttempts == 3

\* The default of baseDelay, in ms.
BASE_DELAY == 1000

\* The errors fn may throw, by the code createAppError gives them; a
\* validation error is not transient.
RetryErrors == {"VALIDATION_ERROR", "OPENAI_ERROR", "TWITTER_ERROR"}

NonTransientErrors == {"VALIDATION_ERROR"}

RetryValues == {"value"}

\* Math.random() * 1000, rounded down to ms: its two ends.
Jitters == {0, 999}

RECURSIVE pow2(_)
pow2(n) == IF n <= 0 THEN 1 ELSE 2 * pow2(n - 1)

\* The test of the for loop, then the call of fn or the final throw.
enterLoop(r) ==
    IF r.attempt <= r.maxAttempts
    THEN [r EXCEPT !.pc = "calling"]
    ELSE [r EXCEPT !.pc = "threw"]

\* withRetry(fn, maxAttempts) up to its first await.
RetryStart(maxAttempts) ==
    /\ retry.pc \in {"idle", "returned", "threw"}
    /\ retry' = enterLoop([IdleRetry EXCEPT !.maxAttempts = maxAttempts, !.attempt = 1])
    /\ UNCHANGED <<moderationVars, postingVars, besideRetry>>

\* fn resolved: withRetry returns its value.
FnResolves(value) ==
    /\ retry.pc = "calling"
    /\ retry' = [retry EXCEPT !.pc = "returned", !.result = value,
                              !.invocations = Append(@, [ok |-> TRUE, value |-> value])]
    /\ UNCHANGED <<moderationVars, postingVars, besideRetry>>

\* The catch block mutated to keep the first error.
FnRejectsKeepFirst(error, jitter) ==
    /\ retry.pc = "calling"
    /\ LET caught == [retry EXCEPT
                         !.lastError = IF @ = "undefined" THEN error ELSE @,
                         !.invocations = Append(@, [ok |-> FALSE, value |-> error])]
       IN  retry' = IF retry.attempt = retry.maxAttempts
                    THEN [caught EXCEPT !.pc = "threw"]
                    ELSE [caught EXCEPT !.pc = "waiting",
                                        !.delay = BASE_DELAY * pow2(retry.attempt - 1) + jitter]
    /\ UNCHANGED <<moderationVars, postingVars, besideRetry>>

\* fn rejected: the catch block up to its await.  The error is kept; the
\* last attempt leaves the loop and throws, any other waits.
FnRejects(error, jitter) ==
    /\ retry.pc = "calling"
    /\ LET caught == [retry EXCEPT
                         !.lastError = error,
                         !.invocations = Append(@, [ok |-> FALSE, value |-> error])]
       IN  retry' = IF retry.attempt = retry.maxAttempts
                    THEN [caught EXCEPT !.pc = "threw"]
                    ELSE [caught EXCEPT !.pc = "waiting",
                                        !.delay = BASE_DELAY * pow2(retry.attempt - 1) + jitter]
    /\ UNCHANGED <<moderationVars, postingVars, besideRetry>>

\* The wait is over: logError, attempt++, and the loop test.
RetryWake ==
    /\ retry.pc = "waiting"
    /\ retry' = enterLoop([retry EXCEPT !.attempt = @ + 1])
    /\ UNCHANGED <<moderationVars, postingVars, besideRetry>>

InitRetry ==
    /\ now = 0
    /\ ticks = 0
    /\ moderationCache = EmptyMap
    /\ calls = [c \in Calls |-> IdleCall]
    /\ lastEval = NoEval
    /\ submitted = {}
    /\ input = NoResult
    /\ analysis = NoAnalysis
    /\ moderate = IdleModerate
    /\ create = IdleCreate
    /\ feedback = NoFeedback
    /\ InitOther
    /\ isClient = FALSE
    /\ posts = <<>>
    /\ nextId = 1
    /\ publish = IdlePublish
    /\ tweet = IdleTweet
    /\ postingCall = NoPostingCall

NextRetry ==
    \/ \E maxAttempts \in 0 .. MaxAttempts : RetryStart(maxAttempts)
    \/ \E value \in RetryValues : FnResolves(value)
    \/ \E error \in RetryErrors, jitter \in Jitters : FnRejects(error, jitter)
    \/ RetryWake

SpecRetry == InitRetry /\ [][NextRetry]_vars

\* How often fn has been invoked: the settled invocations and the one in
\* flight.
invoked == Len(retry.invocations) + (IF retry.pc = "calling" THEN 1 ELSE 0)

AllFailed == \A i \in DOMAIN retry.invocations : ~retry.invocations[i].ok

\* fn is invoked at most maxAttempts times, and a returned call gives the
\* value of its one successful invocation, which is the last one made.
InvocationsBounded ==
    /\ invoked <= retry.maxAttempts
    /\ retry.pc = "returned" =>
           LET n == Len(retry.invocations)
           IN  /\ n >= 1
               /\ retry.invocations[n].ok
               /\ retry.result = retry.invocations[n].value
               /\ \A i \in 1 .. n - 1 : ~retry.invocations[i].ok

C22_NonTransientNotRetried ==
    \A i \in DOMAIN retry.invocations :
        (~retry.invocations[i].ok /\ retry.invocations[i].value \in NonTransientErrors)
            => /\ i = 1
               /\ Len(retry.invocations) = 1
               /\ retry.pc = "threw"
               /\ retry.lastError = retry.invocations[i].value

(***************************************************************************)
(* GET /api/auth/session and the session cookie                            *)
(***************************************************************************)
\* The cookies a browser may hold at the current time: none, one that does
\* not parse, and sessions expiring around now.
Cookies ==
    {NoCookie, [present |-> TRUE, wellFormed |-> FALSE, expiresAt |-> 0]} \cup
    {[present |-> TRUE, wellFormed |-> TRUE, expiresAt |-> e] :
         e \in {now - 1, now, now + 1, now + 2}}

\* The expiry test of the handler, mutated to allow one more millisecond.
sessionExpiredLate(session) == now > session.expiresAt + 1

\* Date.now() > session.expiresAt
sessionExpired(session) == now > session.expiresAt

\* The browser's cookie is set (the OAuth callback, or the client itself).
SetCookie(value) ==
    /\ cookie' = value
    /\ UNCHANGED <<moderationVars, postingVars, besideSession, sessionReply>>

\* GET /api/auth/session: the whole handler, and the browser applying the
\* cookie deletion of the response.
SessionGet ==
    /\ IF ~cookie.present
       THEN /\ sessionReply' = [NoSessionReply EXCEPT !.pc = "responded", !.cookie = cookie,
                                                      !.at = now]
            /\ UNCHANGED cookie
       ELSE IF ~cookie.wellFormed
       THEN /\ sessionReply' = [NoSessionReply EXCEPT !.pc = "responded", !.cookie = cookie,
                                                      !.at = now]
            /\ UNCHANGED cookie
       ELSE IF sessionExpired(cookie)
       THEN /\ sessionReply' = [NoSessionReply EXCEPT !.pc = "responded", !.cookie = cookie,
                                                      !.at = now, !.deletesCookie = TRUE]
            /\ cookie' = NoCookie
       ELSE /\ sessionReply' = [NoSessionReply EXCEPT !.pc = "responded", !.cookie = cookie,
                                                      !.at = now, !.user = "session.user",
                                                      !.authenticated = TRUE]
            /\ UNCHANGED cookie
    /\ UNCHANGED <<moderationVars, postingVars, besideSession>>

\* POST /api/twitter/post with a cookie that does not parse: JSON.parse
\* throws and the catch block answers.
TweetMalformed ==
    /\ RouteIdle(tweet)
    /\ cookie.present /\ ~cookie.wellFormed
    /\ tweet' = [pc |-> "responded", status |-> 500]
    /\ UNCHANGED <<now, ticks, moderationCache, calls, lastEval, submitted, input, analysis>>
    /\ UNCHANGED <<otherVars, moderate, create, feedback, isClient, posts, nextId, publish,
                   postingCall>>

InitSession ==
    /\ now = 2
    /\ ticks = 0
    /\ moderationCache = EmptyMap
    /\ calls = [c \in Calls |-> IdleCall]
    /\ lastEval = NoEval
    /\ submitted = {<<65, 97>>}
    /\ input = NoResult
    /\ analysis = NoAnalysis
    /\ moderate = IdleModerate
    /\ create = IdleCreate
    /\ feedback = NoFeedback
    /\ InitOther
    /\ isClient = FALSE
    /\ posts = <<>>
    /\ nextId = 1
    /\ publish = IdlePublish
    /\ tweet = IdleTweet
    /\ postingCall = NoPostingCall

NextSession ==
    \/ \E value \in Cookies : SetCookie(value)
    \/ SessionGet
    \/ \E text \in submitted \cup {<<>>} :
           (~cookie.present \/ cookie.wellFormed) /\ TweetStart(cookie, text)
    \/ TweetMalformed
    \/ \E ok \in BOOLEAN : TweetDone(ok)
    \/ Tick(1)

SpecSession == InitSession /\ [][NextSession]_vars

\* C23: with a session cookie whose expiresAt is earlier than now, the
\* session route answers user null, authenticated false and the cookie is
\* deleted, and the tweet route answers 401 and sends nothing to the posting
\* service; with no cookie both answer as unauthenticated.
C23_ExpiredSessionUnusable ==
    [][LET expired == cookie.present /\ cookie.wellFormed /\ cookie.expiresAt < now
           unusable == expired \/ ~cookie.present
       IN  /\ (SessionGet /\ unusable) =>
                  /\ sessionReply'.pc = "responded"
                  /\ sessionReply'.user = "null"
                  /\ ~sessionReply'.authenticated
                  /\ expired => (sessionReply'.deletesCookie /\ ~cookie'.present)
           /\ (RouteIdle(tweet) /\ unusable) =>
                  /\ tweet'.pc # "posting"
                  /\ postingCall' = postingCall
                  /\ tweet' # tweet => tweet'.status = 401]_vars

\* The session route has answered an expired cookie by deleting it, and the
\* tweet route has answered 401.
C23_Witness ==
    /\ sessionReply.pc = "responded"
    /\ sessionReply.cookie.present
    /\ sessionReply.cookie.wellFormed
    /\ sessionReply.cookie.expiresAt < sessionReply.at
    /\ sessionReply.deletesCookie
    /\ ~cookie.present
    /\ tweet.pc = "responded" /\ tweet.status = 401

(***************************************************************************)
(* GET /api/health                                                         *)
(***************************************************************************)
MAX_DRAFTS == 50

\* 5MB, the rough limit of the storage.
MAX_STORAGE_SIZE == 5242880

\* What db.getStats() may report: sizes at and just above 70% and 90% of the
\* limit, item counts at and just above their limits.
HealthStats ==
    [posts : {MAX_POSTS_HISTORY, MAX_POSTS_HISTORY + 1},
     drafts : {MAX_DRAFTS, MAX_DRAFTS + 1},
     totalSize : {0, (MAX_STORAGE_SIZE * 7) \div 10, (MAX_STORAGE_SIZE * 7) \div 10 + 1,
                  (MAX_STORAGE_SIZE * 9) \div 10, (MAX_STORAGE_SIZE * 9) \div 10 + 1},
     needsCleanup : BOOLEAN]

\* status === 'critical' ? 'critical' : 'warning'
raiseToWarning(status) == IF status = "critical" THEN "critical" ELSE "warning"

\* getStorageHealth, for the stats and the answer of db.isAvailable().
getStorageHealth(stats, available) ==
    LET bySize ==
            IF stats.totalSize * 10 > MAX_STORAGE_SIZE * 9
            THEN [status |-> "critical", issues |-> <<"Storage nearly full">>]
            ELSE IF stats.totalSize * 10 > MAX_STORAGE_SIZE * 7
            THEN [status |-> "warning", issues |-> <<"Storage usage high">>]
            ELSE [status |-> "healthy", issues |-> <<>>]
        byPosts ==
            IF stats.posts > MAX_POSTS_HISTORY
            THEN [status |-> raiseToWarning(bySize.status),
                  issues |-> Append(bySize.issues, "Too many posts stored")]
            ELSE bySize
        byDrafts ==
            IF stats.drafts > MAX_DRAFTS
            THEN [status |-> raiseToWarning(byPosts.status),
                  issues |-> Append(byPosts.issues, "Too many drafts stored")]
            ELSE byPosts
        byCleanup ==
            IF stats.needsCleanup
            THEN [byDrafts EXCEPT !.issues = Append(@, "Cleanup overdue")]
            ELSE byDrafts
    IN  IF ~available
        THEN [status |-> "critical",
              issues |-> Append(byCleanup.issues, "localStorage not available")]
        ELSE byCleanup

\* isHealthy, mutated to count a warning as unhealthy.
isHealthyStrict(status, isStorageAvailable) == status = "healthy" /\ isStorageAvailable

\* const isHealthy = storageHealth.status !== 'critical' && isStorageAvailable
isHealthy(status, isStorageAvailable) == status # "critical" /\ isStorageAvailable

\* GET /api/health: the whole handler.  db.isAvailable() is asked by
\* getStorageHealth and again by the handler; `throws` stands for a check
\* that throws; the cleanup runs when requested and its failure is caught.
HealthGet(stats, availableFirst, availableThen, throws, cleanup) ==
    /\ LET storageHealth == getStorageHealth(stats, availableFirst)
           healthy       == isHealthy(storageHealth.status, availableThen)
       IN  health' =
               IF throws
               THEN [NoHealth EXCEPT !.pc = "responded", !.stats = stats, !.httpStatus = 500,
                                     !.success = FALSE, !.status = "unhealthy"]
               ELSE [pc |-> "responded", stats |-> stats,
                     httpStatus |-> IF healthy THEN 200 ELSE 503,
                     success |-> TRUE,
                     status |-> IF healthy THEN "healthy" ELSE "unhealthy",
                     storageHealth |-> storageHealth.status,
                     storageAvailable |-> availableThen,
                     issues |-> storageHealth.issues,
                     cleanup |-> cleanup]
    /\ UNCHANGED <<moderationVars, postingVars, besideHealth>>

InitHealth ==
    /\ now = 0
    /\ ticks = 0
    /\ moderationCache = EmptyMap
    /\ calls = [c \in Calls |-> IdleCall]
    /\ lastEval = NoEval
    /\ submitted = {}
    /\ input = NoResult
    /\ analysis = NoAnalysis
    /\ moderate = IdleModerate
    /\ create = IdleCreate
    /\ feedback = NoFeedback
    /\ InitOther
    /\ isClient = FALSE
    /\ posts = <<>>
    /\ nextId = 1
    /\ publish = IdlePublish
    /\ tweet = IdleTweet
    /\ postingCall = NoPostingCall

NextHealth ==
    \E stats \in HealthStats, availableFirst \in BOOLEAN, availableThen \in BOOLEAN,
       throws \in BOOLEAN, cleanup \in {"none", "done", "failed"} :
        HealthGet(stats, availableFirst, availableThen, throws, cleanup)

SpecHealth == InitHealth /\ [][NextHealth]_vars

\* C24: a response reports 'healthy' with 200 exactly when the storage
\* health it reports is not 'critical' and the storage is available, a
\* warning included; any other report is 'unhealthy' with 503; a check that
\* throws gives 500 with success false and status 'unhealthy'.
C24_HealthyIffStorageOk ==
    health.pc = "responded" =>
        IF health.success
        THEN LET ok == health.storageHealth # "critical" /\ health.storageAvailable
             IN  /\ health.storageHealth \in {"healthy", "warning", "critical"}
                 /\ ok => (health.status = "healthy" /\ health.httpStatus = 200)
                 /\ ~ok => (health.status = "unhealthy" /\ health.httpStatus = 503)
        ELSE health.httpStatus = 500 /\ health.status = "unhealthy"

\* A warning that is reported healthy.
C24_Witness ==
    /\ health.pc = "responded"
    /\ health.storageHealth = "warning"
    /\ health.storageAvailable
    /\ health.status = "healthy"
    /\ health.httpStatus = 200

(***************************************************************************)
(* The db operations on posts and drafts                                   *)
(***************************************************************************)
\* removePost: the list without the posts of that id.
removePost(id, writeOk) ==
    setPosts(SelectSeq(getPosts, LAMBDA post : post.id # id), writeOk)

\* drafts.slice(0, STORAGE.MAX_DRAFTS)
limitedDrafts(list) ==
    SubSeq(list, 1, IF Len(list) < MAX_DRAFTS THEN Len(list) ELSE MAX_DRAFTS)

getDrafts == IF isClient THEN drafts ELSE <<>>

setDrafts(list, writeOk) ==
    IF isClient /\ writeOk
    THEN [ok |-> TRUE, drafts |-> limitedDrafts(list)]
    ELSE [ok |-> FALSE, drafts |-> drafts]

\* addDraft: the new draft at the front.
addDraft(content, writeOk) ==
    setDrafts(<<[id |-> nextId, content |-> content]>> \o getDrafts, writeOk)

updateDraft(id, content, writeOk) ==
    LET list  == getDrafts
        found == {i \in DOMAIN list : list[i].id = id}
    IN  IF found = {} THEN [ok |-> FALSE, drafts |-> drafts]
        ELSE LET index == CHOOSE i \in found : \A j \in found : i <= j
             IN  setDrafts([list EXCEPT ![index].content = content], writeOk)

removeDraft(id, writeOk) ==
    setDrafts(SelectSeq(getDrafts, LAMBDA draft : draft.id # id), writeOk)

\* Lists handed to setPosts, setDrafts and importData: n items, the newest
\* first, with ids of their own.
postList(n) ==
    [i \in 1 .. n |-> [id |-> 1000 + i, content |-> <<65, 97>>, status |-> "approved",
                       twitterPostId |-> 0]]

draftList(n) == [i \in 1 .. n |-> [id |-> 2000 + i, content |-> <<65, 97>>]]

PostLists == {postList(n) : n \in {MAX_POSTS_HISTORY - 1, MAX_POSTS_HISTORY + 1}}

DraftLists == {draftList(n) : n \in {MAX_DRAFTS - 1, MAX_DRAFTS + 1}}

\* The ids an update or a removal names: the newest and the oldest stored
\* item, and an id that is not stored.
idsOf(list) == IF list = <<>> THEN {0} ELSE {list[1].id, list[Len(list)].id, 0}

\* What no db operation changes.
notDb ==
    <<moderationVars, moderate, create, feedback, isClient, publish, tweet, postingCall,
      besideDb>>

DbSetPosts(list, writeOk) ==
    /\ dbOps < MaxDbOps
    /\ dbOps' = dbOps + 1
    /\ posts' = setPosts(list, writeOk).posts
    /\ UNCHANGED <<drafts, nextId, notDb>>

DbAddPost(writeOk) ==
    /\ dbOps < MaxDbOps
    /\ dbOps' = dbOps + 1
    /\ LET added == addPost(<<66, 66>>, "pending", writeOk)
       IN  /\ posts' = added.posts
           /\ nextId' = IF added.ok THEN nextId + 1 ELSE nextId
    /\ UNCHANGED <<drafts, notDb>>

DbUpdatePost(id, writeOk) ==
    /\ dbOps < MaxDbOps
    /\ dbOps' = dbOps + 1
    /\ posts' = updatePost(id, "posted", 7, writeOk).posts
    /\ UNCHANGED <<drafts, nextId, notDb>>

DbRemovePost(id, writeOk) ==
    /\ dbOps < MaxDbOps
    /\ dbOps' = dbOps + 1
    /\ posts' = removePost(id, writeOk).posts
    /\ UNCHANGED <<drafts, nextId, notDb>>

DbSetDrafts(list, writeOk) ==
    /\ dbOps < MaxDbOps
    /\ dbOps' = dbOps + 1
    /\ drafts' = setDrafts(list, writeOk).drafts
    /\ UNCHANGED <<posts, nextId, notDb>>

DbAddDraft(writeOk) ==
    /\ dbOps < MaxDbOps
    /\ dbOps' = dbOps + 1
    /\ LET added == addDraft(<<66, 66>>, writeOk)
       IN  /\ drafts' = added.drafts
           /\ nextId' = IF added.ok THEN nextId + 1 ELSE nextId
    /\ UNCHANGED <<posts, notDb>>

DbUpdateDraft(id, writeOk) ==
    /\ dbOps < MaxDbOps
    /\ dbOps' = dbOps + 1
    /\ drafts' = updateDraft(id, <<122>>, writeOk).drafts
    /\ UNCHANGED <<posts, nextId, notDb>>

DbRemoveDraft(id, writeOk) ==
    /\ dbOps < MaxDbOps
    /\ dbOps' = dbOps + 1
    /\ drafts' = removeDraft(id, writeOk).drafts
    /\ UNCHANGED <<posts, nextId, notDb>>

\* importData: setPosts(data.posts), then setDrafts(data.drafts), each write
\* succeeding or not on its own.
DbImportData(postData, draftData, postsOk, draftsOk) ==
    /\ dbOps < MaxDbOps
    /\ dbOps' = dbOps + 1
    /\ posts' = setPosts(postData, postsOk).posts
    /\ drafts' = setDrafts(draftData, draftsOk).drafts
    /\ UNCHANGED <<nextId, notDb>>

InitDb ==
    /\ now = 0
    /\ ticks = 0
    /\ moderationCache = EmptyMap
    /\ calls = [c \in Calls |-> IdleCall]
    /\ lastEval = NoEval
    /\ submitted = {}
    /\ input = NoResult
    /\ analysis = NoAnalysis
    /\ moderate = IdleModerate
    /\ create = IdleCreate
    /\ feedback = NoFeedback
    /\ InitOther
    /\ isClient \in BOOLEAN
    /\ posts = <<>>
    /\ nextId = 1
    /\ publish = IdlePublish
    /\ tweet = IdleTweet
    /\ postingCall = NoPostingCall

NextDb ==
    \/ \E list \in PostLists, writeOk \in BOOLEAN : DbSetPosts(list, writeOk)
    \/ \E writeOk \in BOOLEAN : DbAddPost(writeOk)
    \/ \E id \in idsOf(posts), writeOk \in BOOLEAN : DbUpdatePost(id, writeOk)
    \/ \E id \in idsOf(posts), writeOk \in BOOLEAN : DbRemovePost(id, writeOk)
    \/ \E list \in DraftLists, writeOk \in BOOLEAN : DbSetDrafts(list, writeOk)
    \/ \E writeOk \in BOOLEAN : DbAddDraft(writeOk)
    \/ \E id \in idsOf(drafts), writeOk \in BOOLEAN : DbUpdateDraft(id, writeOk)
    \/ \E id \in idsOf(drafts), writeOk \in BOOLEAN : DbRemoveDraft(id, writeOk)
    \/ \E postData \in PostLists, draftData \in DraftLists,
          postsOk \in BOOLEAN, draftsOk \in BOOLEAN :
           DbImportData(postData, draftData, postsOk, draftsOk)

SpecDb == InitDb /\ [][NextDb]_vars

\* An item was added at the front of `after`, the items of `before` follow
\* it in their order, and what does not fit in `limit` items is dropped at
\* the end.
AddedAtFront(before, after, limit) ==
    /\ after[1].id = nextId
    /\ Len(after) = (IF Len(before) < limit THEN Len(before) + 1 ELSE limit)
    /\ \A i \in 2 .. Len(after) : after[i] = before[i - 1]

\* C25: the stored post list never has more than 100 items and the stored
\* draft list never more than 50, and a step that adds an item puts it at
\* the front and, at capacity, drops the oldest item at the end.
C25_StorageBounds ==
    /\ [](Len(posts) <= 100 /\ Len(drafts) <= 50)
    /\ [][(nextId' = nextId + 1 /\ posts' # posts) => AddedAtFront(posts, posts', 100)]_vars
    /\ [][(nextId' = nextId + 1 /\ drafts' # drafts)
              => AddedAtFront(drafts, drafts', 50)]_vars

\* Both lists are full, the newest post is one that was added, and the
\* oldest item of the list set before has been dropped.
C25_Witness ==
    /\ Len(posts) = 100
    /\ posts[1].id < 1000
    /\ posts[100].id = 1099
    /\ Len(drafts) = 50

(***************************************************************************)
(* moderateContent with a classifier that answers each text in one way     *)
(***************************************************************************)
\* The answer of the classifier to a text: "BB" has harassment at 0.141,
\* every other text is clean.
answerFor(content) ==
    [id |-> content, model |-> MODEL,
     results |-> IF content = <<66, 66>> THEN <<HarassmentUnit>> ELSE <<CleanUnit>>]

\* What moderateContent returns for a text when nothing is cached.
uncachedDecision(content) == analyzeModeration(toModerationResult(answerFor(content)))

NextSteady ==
    \/ \E c \in Calls, content \in submitted : ModerateStart(c, content)
    \/ \E c \in Calls : ClassifierRespond(c, answerFor(calls[c].content))
    \/ \E c \in Calls : ClassifierFail(c)
    \/ Sweep
    \/ \E d \in TickSteps : Tick(d)

SpecSteady == Init /\ [][NextSteady]_vars

\* C26: a call served from the cache returns the isAllowed, the
\* flaggedCategories, the confidenceScore and the raw results that a call
\* for its text returns without a cache.
C26_CacheTransparent ==
    \A c \in Calls :
        (calls[c].pc = "done" /\ calls[c].lookup = "hit") =>
            LET cached   == calls[c].decision
                uncached == uncachedDecision(calls[c].content)
            IN  /\ cached.isAllowed = uncached.isAllowed
                /\ cached.flaggedCategories = uncached.flaggedCategories
                /\ cached.confidenceScore = uncached.confidenceScore
                /\ cached.moderationResult.results = uncached.moderationResult.results

(***************************************************************************)
(* moderateContent with responses that have no result unit                 *)
(***************************************************************************)
\* The service answers with no unit at all, or with harassment at 0.141.
EmptyResponses(content) ==
    {[id |-> content, model |-> MODEL, results |-> rs] : rs \in {<<>>, <<HarassmentUnit>>}}

NextEmpty ==
    \/ \E c \in Calls, content \in submitted : ModerateStart(c, content)
    \/ \E c \in Calls : \E response \in EmptyResponses(calls[c].content) :
           ClassifierRespond(c, response)
    \/ \E c \in Calls : ClassifierFail(c)
    \/ Sweep
    \/ \E d \in TickSteps : Tick(d)

SpecEmpty == InitShape /\ [][NextEmpty]_vars

\* The decision allows, names no category and has confidence 0.
AllowsOutright(decision) ==
    /\ decision.isAllowed
    /\ decision.flaggedCategories = <<>>
    /\ decision.confidenceScore = 0

\* C27: a call whose classifier answered with no result unit returns
\* isAllowed = true, flaggedCategories = [], confidenceScore = 0 and stores
\* the empty response under its key; a call that starts while such an entry
\* is younger than the TTL is served from it and allowed in the same way.
C27_EmptyResponseAllowed ==
    [][\A c \in Calls :
          /\ (calls[c].pc = "awaiting" /\ calls'[c].classifier = "ok"
                  /\ calls'[c].decision.moderationResult.results = <<>>)
                 => LET key == getModerationCacheKey(calls[c].content)
                    IN  /\ AllowsOutright(calls'[c].decision)
                        /\ key \in DOMAIN moderationCache'
                        /\ moderationCache'[key].result.results = <<>>
                        /\ moderationCache'[key].timestamp = now
          /\ \A T \in submitted :
                 LET key == getModerationCacheKey(T)
                 IN  (/\ key \in DOMAIN moderationCache
                      /\ moderationCache[key].result.results = <<>>
                      /\ now - moderationCache[key].timestamp < 3600000
                      /\ StartsCall(c, T))
                         => /\ calls'[c].pc = "done"
                            /\ calls'[c].lookup = "hit"
                            /\ AllowsOutright(calls'[c].decision)]_vars

\* A call was served an empty response from the cache one millisecond
\* before the entry expired, and allowed.
C27_Witness ==
    \E c \in Calls :
        /\ calls[c].pc = "done"
        /\ calls[c].lookup = "hit"
        /\ calls[c].decision.moderationResult.results = <<>>
        /\ calls[c].decision.isAllowed
        /\ lastEval.status = "hit"
        /\ now - lastEval.at = 3600000 - 1

(***************************************************************************)
(* The lifetime of a cache entry (checked under Spec)                      *)
(***************************************************************************)
\* The step completes a call that missed the cache with a classification.
StoresAfterMiss(c) ==
    /\ calls[c].pc = "awaiting"
    /\ calls[c].lookup \in {"absent", "expired"}
    /\ calls'[c].pc = "done"
    /\ calls'[c].classifier = "ok"

\* C28: the timestamp of an entry is set, to the current time, only by a
\* step that stores a classification after a miss; a hit leaves the cache as
\* it is; and a call that starts when the entry of its key is of age TTL or
\* more, however often it has been hit, issues a remote call.
C28_HitKeepsLifetime ==
    [][/\ \A k \in DOMAIN moderationCache' :
              (k \notin DOMAIN moderationCache
                   \/ moderationCache'[k].timestamp # moderationCache[k].timestamp)
                  => /\ moderationCache'[k].timestamp = now
                     /\ \E c \in Calls :
                            /\ StoresAfterMiss(c)
                            /\ getModerationCacheKey(calls[c].content) = k
       /\ \A c \in Calls :
              (calls[c].pc # "awaiting" /\ calls'[c].pc = "done" /\ calls'[c].lookup = "hit"
                   /\ calls'[c] # calls[c])
                  => moderationCache' = moderationCache
       /\ \A c \in Calls : \A T \in submitted :
              LET key == getModerationCacheKey(T)
              IN  (/\ key \in DOMAIN moderationCache
                   /\ now >= moderationCache[key].timestamp + 3600000
                   /\ StartsCall(c, T))
                      => /\ calls'[c].pc = "awaiting"
                         /\ calls'[c].classifier = "pending"]_vars

\* An entry was hit, and a later call for the same text, started when the
\* TTL had passed, found it expired, removed it and awaits the classifier.
C28_Witness ==
    \E c1 \in Calls, c2 \in Calls :
        /\ calls[c1].pc = "done"
        /\ calls[c1].lookup = "hit"
        /\ calls[c2].pc = "awaiting"
        /\ calls[c2].lookup = "expired"
        /\ calls[c2].content = calls[c1].content
        /\ getModerationCacheKey(calls[c2].content) \notin DOMAIN moderationCache

(***************************************************************************)
(* The status of the post stored by POST /api/twitter/publish              *)
(* (checked under SpecPublish)                                             *)
(***************************************************************************)
\* The stored post of that id before and after the step, if there is one.
StoredPost(list, id) ==
    LET found == {i \in DOMAIN list : list[i].id = id}
    IN  IF found = {} THEN [id |-> 0, status |-> "none", twitterPostId |-> 0]
        ELSE [id |-> id, status |-> list[CHOOSE i \in found : TRUE].status,
              twitterPostId |-> list[CHOOSE i \in found : TRUE].twitterPostId]

\* A post enters the store as 'pending' in a step that follows an allowing
\* decision, and its status changes from 'pending' to 'posted' or 'failed'
\* only.
StatusSteps ==
    \A id \in 1 .. MaxPosts :
        LET before == StoredPost(posts, id)
            after  == StoredPost(posts', id)
        IN  /\ (before.status = "none" /\ after.status # "none")
                   => /\ after.status = "pending"
                      /\ publish.pc = "moderating"
                      /\ calls[publish.slot].pc = "done"
                      /\ calls[publish.slot].decision.isAllowed
            /\ (before.status # "none" /\ after.status # before.status)
                   => /\ before.status = "pending"
                      /\ after.status \in {"posted", "failed"}

\* A post becomes 'posted', with its twitterPostId set, only in the step in
\* which the posting call has returned.
PostedAfterSuccess ==
    \A id \in 1 .. MaxPosts :
        (StoredPost(posts, id).status # "posted" /\ StoredPost(posts', id).status = "posted")
            => /\ publish.pc = "posting"
               /\ publish.postId = id
               /\ publish'.pc = "responded"
               /\ publish'.status = 201
               /\ StoredPost(posts', id).twitterPostId # 0

\* When the posting call throws, the post of the request becomes 'failed'.
FailedWhenThrows ==
    (publish.pc = "posting" /\ publish'.pc = "responded" /\ publish'.status # 201)
        => StoredPost(posts', publish.postId).status = "failed"

\* When storing the pending post failed, nothing is sent to the posting
\* service.
NoPostingWithoutPost ==
    (publish.pc = "moderating" /\ publish' # publish /\ posts' = posts)
        => (postingCall' = postingCall /\ publish'.pc # "posting")

\* C29: the stored post is created 'pending' after an allowing decision,
\* goes from 'pending' to 'posted' (twitterPostId set) only when the posting
\* call has returned and to 'failed' when it throws, changes its status in
\* no other way, and nothing is sent to the posting service when the
\* pending post could not be stored.
C29_PendingPostedFailed ==
    [][StatusSteps /\ PostedAfterSuccess /\ FailedWhenThrows /\ NoPostingWithoutPost]_vars

\* The clauses of C29 other than the one on a throwing posting call.
StatusStepsOnly ==
    [][StatusSteps /\ PostedAfterSuccess /\ NoPostingWithoutPost]_vars

\* ------------------------------------------------------------------
\* The CreatePost form.  The component's state is content,
\* moderationState, moderationResult and lastModeratedContent; every
\* click runs the callback of the render it was made in, so a call in
\* flight keeps the content and the moderationResult of that render.
\* The texts are "", " ", "Aa" and "BB".  The publishing button and the
\* drafts of the form are left out: neither writes the fields below.
\* ------------------------------------------------------------------

FormTexts == {<<>>, <<32>>, <<65, 97>>, <<66, 66>>}

Flights == {1, 2}

isValidPostLength(content) ==
    Len(content) >= MIN_POST_LENGTH /\ Len(content) <= MAX_POST_LENGTH

isContentValid == isValidPostLength(form.content) /\ Len(trim(form.content)) > 0

canModerate == isContentValid /\ form.moderationState # "loading"

canPost == isContentValid /\ form.moderationResult.present /\ form.moderationResult.isAllowed

\* moderatePost answers from the state of its render without a request.
skipsModeration ==
    form.moderationResult.present /\ form.content = form.lastModeratedContent

\* The number of createPost calls awaiting their moderation.
creating == Cardinality({i \in Flights : form.flights[i].kind = "create" /\ form.flights[i].pc = "awaiting"})

\* handleContentChange: the text area is edited.
handleContentChange(newContent) ==
    /\ form' = [form EXCEPT
           !.content = newContent,
           !.moderationResult =
               IF form.moderationResult.present /\ newContent # form.lastModeratedContent
               THEN NoFormResult ELSE @]
    /\ UNCHANGED <<moderationVars, postingVars, besideForm>>

\* clearContent: the Clear button.
clearContent ==
    /\ Len(trim(form.content)) > 0
    /\ form' = [form EXCEPT !.content = <<>>, !.moderationResult = NoFormResult,
                            !.lastModeratedContent = <<>>]
    /\ UNCHANGED <<moderationVars, postingVars, besideForm>>

\* createPost after `await moderatePost()`, on the state f: db.addPost with
\* the content and the moderationResult of the render the click was made
\* in, then the form is emptied; a failed write leaves f as it is.
savePost(f, content, moderationResult, writeOk) ==
    IF writeOk
    THEN [f EXCEPT !.saved = Append(@, [content |-> content, moderationResult |-> moderationResult]),
                   !.content = <<>>, !.moderationResult = NoFormResult,
                   !.lastModeratedContent = <<>>]
    ELSE f

\* moderatePost up to its await, started by `kind` in slot i.
startFlight(i, kind) ==
    [form EXCEPT !.moderationState = "loading",
                 !.flights[i] = [pc |-> "awaiting", kind |-> kind, content |-> form.content,
                                 moderationResult |-> form.moderationResult]]

\* The Check Content button: moderatePost.
ClickModerate(i) ==
    /\ canModerate
    /\ form.flights[i].pc = "none"
    /\ form' = IF skipsModeration THEN form ELSE startFlight(i, "moderate")
    /\ UNCHANGED <<moderationVars, postingVars, besideForm>>

\* The Save Post button: createPost up to the await of moderatePost, or
\* to its end when moderatePost answers without a request.
ClickCreate(i, writeOk) ==
    /\ canPost
    /\ form.flights[i].pc = "none"
    /\ Len(form.saved) + creating < MaxPosts
    /\ form' = IF skipsModeration
               THEN savePost(form, form.content, form.moderationResult, writeOk)
               ELSE startFlight(i, "create")
    /\ UNCHANGED <<moderationVars, postingVars, besideForm>>

\* moderateContentAPI resolves for the call in slot i; a createPost call
\* goes on to store the post when the text is allowed.
ApiResolves(i, isAllowed, writeOk) ==
    LET flight == form.flights[i]
        result == [present |-> TRUE, of |-> flight.content, isAllowed |-> isAllowed]
        settled == [form EXCEPT !.moderationResult = result,
                                !.lastModeratedContent = flight.content,
                                !.moderationState = "success",
                                !.flights[i] = NoFlight,
                                !.allowed = IF isAllowed THEN @ \cup {flight.content} ELSE @]
    IN  /\ flight.pc = "awaiting"
        /\ form' = IF flight.kind = "create" /\ isAllowed
                   THEN savePost(settled, flight.content, flight.moderationResult, writeOk)
                   ELSE settled
        /\ UNCHANGED <<moderationVars, postingVars, besideForm>>

\* moderateContentAPI rejects for the call in slot i.
ApiRejects(i) ==
    /\ form.flights[i].pc = "awaiting"
    /\ form' = [form EXCEPT !.moderationState = "error", !.flights[i] = NoFlight]
    /\ UNCHANGED <<moderationVars, postingVars, besideForm>>

InitForm ==
    /\ now = 0
    /\ ticks = 0
    /\ moderationCache = EmptyMap
    /\ calls = [c \in Calls |-> IdleCall]
    /\ lastEval = NoEval
    /\ submitted = {}
    /\ input = NoResult
    /\ analysis = NoAnalysis
    /\ isClient = TRUE
    /\ posts = <<>>
    /\ nextId = 1
    /\ moderate = IdleModerate
    /\ create = IdleCreate
    /\ feedback = NoFeedback
    /\ publish = IdlePublish
    /\ tweet = IdleTweet
    /\ postingCall = NoPostingCall
    /\ InitOther

NextForm ==
    \/ \E newContent \in FormTexts : handleContentChange(newContent)
    \/ clearContent
    \/ \E i \in Flights : ClickModerate(i)
    \/ \E i \in Flights, writeOk \in BOOLEAN : ClickCreate(i, writeOk)
    \/ \E i \in Flights, isAllowed \in BOOLEAN, writeOk \in BOOLEAN : ApiResolves(i, isAllowed, writeOk)
    \/ \E i \in Flights : ApiRejects(i)

SpecForm == InitForm /\ [][NextForm]_vars

\* The content of every saved post was allowed by the moderation API.
SavedContentModerated ==
    \A k \in 1 .. Len(form.saved) : form.saved[k].content \in form.allowed

\* The result stored with every saved post was computed for its content.
SavedResultOfContent ==
    \A k \in 1 .. Len(form.saved) :
        /\ form.saved[k].moderationResult.present
        /\ form.saved[k].moderationResult.of = form.saved[k].content

\* C30: whatever the interleaving of edits with moderation requests in
\* flight, a post saved by createPost has a content that was itself
\* moderated as allowed, and the moderationResult stored with it is the
\* result computed for exactly that content, never one for an earlier
\* text.
C30_SavedPostModerated == SavedContentModerated /\ SavedResultOfContent

====
